---- MODULE Spec2Model ----
(***************************************************************************)
(* Day-classification and session-attribution pipeline of                  *)
(* trading-analytics-pro: DataIngestion (src/src/ingestion.py), the       *)
(* session timetable (src/config.py), DayClassifier (src/classifier.py),   *)
(* SessionAnalytics (src/analytics.py) and TradingPredictor                *)
(* (src/src/predictor.py).                                                 *)
(*                                                                         *)
(* Timestamps are minutes since midnight of model day 0.  Text values      *)
(* that the code compares as text are sequences of character codes.        *)
(***************************************************************************)
EXTENDS Integers, Sequences, FiniteSets, TLC

VARIABLES
    timestamp,  \* argument handed to DataIngestion._identificar_sesion
    sesion,     \* its return value, "none" before the call
    fecha_dst,  \* argument handed to config._es_dst_usa: year, month, day, hour
    dst,        \* its return value, None before the call
    llamador,   \* who runs the pipeline: "procesar_archivo" (dashboard) or "__main__" (script)
    archivo,    \* what lies at archivo_path: readable rows, a missing or a malformed file
    ing,        \* the DataIngestion instance: df, errores, warnings
    pc,         \* position of the caller inside procesar / procesar_archivo
    ret,        \* value returned by procesar, "none" before it returns
    traza,      \* methods invoked so far, in call order, with their results
    consola,    \* notices printed on the console
    clf,        \* the DayClassifier instance: df, stats_diarias, clasificaciones, percentiles
    ultima,     \* last public DayClassifier call: method and metrica argument, and
                \* whether it repeats the call before it
    rachas,     \* value returned by DayClassifier.detectar_rachas, None before the call
    dominantes, \* value returned by SessionAnalytics.identificar_sesion_dominante, None before
    ana,        \* the SessionAnalytics instance: df, clasificaciones, stats_sesiones
    pred        \* the TradingPredictor instance: clasificaciones, stats_sesiones,
                \* patrones, reglas_probabilisticas

vars == <<timestamp, sesion, fecha_dst, dst, llamador, archivo, ing, pc, ret, traza, consola, clf, ultima,
          rachas, dominantes, ana, pred>>

sesionVars == <<timestamp, sesion, fecha_dst, dst>>
ingVars    == <<llamador, archivo, ing, pc, ret, traza, consola>>
clfVars    == <<clf, ultima>>
anaVars    == <<rachas, dominantes, ana, pred>>

\* Optional values: None is the empty sequence, a present value x is <<x>>.
None == <<>>
Algo(x) == <<x>>
Valor(o) == o[1]

Min(a, b) == IF a <= b THEN a ELSE b
Max(a, b) == IF a >= b THEN a ELSE b

(***************************************************************************)
(* Text: str values as sequences of character codes, compared as Python    *)
(* compares str (first differing code point, a proper prefix is smaller).  *)
(***************************************************************************)
Digito(d) == 48 + d
DosPuntos == 58

StrLT(a, b) ==
    \E i \in 1..(Min(Len(a), Len(b)) + 1) :
        /\ \A j \in 1..(i - 1) : a[j] = b[j]
        /\ \/ i > Len(a) /\ i <= Len(b)
           \/ i <= Len(a) /\ i <= Len(b) /\ a[i] < b[i]

StrLE(a, b) == a = b \/ StrLT(a, b)

\* "HH:MM" literal of the timetable
HHMM(h, m) ==
    <<Digito(h \div 10), Digito(h % 10), DosPuntos, Digito(m \div 10), Digito(m % 10)>>

MinutosDia == 24 * 60

\* timestamp.strftime("%H:%M")
strftime_HM(t) == HHMM((t % MinutosDia) \div 60, (t % MinutosDia) % 60)

(***************************************************************************)
(* config._es_dst_usa.  A datetime is a record year, month, day, hour.     *)
(***************************************************************************)
\* datetime(year, month, day).weekday(): 0 is Monday, 6 is Sunday
weekday(year, month, day) ==
    LET t == <<0, 3, 2, 5, 0, 3, 5, 1, 4, 6, 2, 4>>
        y == IF month < 3 THEN year - 1 ELSE year
        desde_domingo == (y + y \div 4 - y \div 100 + y \div 400 + t[month] + day) % 7
    IN  (desde_domingo + 6) % 7

es_dst_usa(f) ==
    IF f.month < 3 \/ f.month > 11 THEN FALSE
    ELSE IF f.month > 3 /\ f.month < 11 THEN TRUE
    ELSE LET segundo_domingo_marzo == 1 + ((6 - weekday(f.year, 3, 1)) % 7) + 7
             primer_domingo_nov == 1 + ((6 - weekday(f.year, 11, 1)) % 7)
         IN  IF f.month = 3 THEN f.day >= segundo_domingo_marzo
             ELSE f.day < primer_domingo_nov

(***************************************************************************)
(* config.obtener_horarios_sesion_et: the timetable, the same for any date *)
(***************************************************************************)
obtener_horarios_sesion_et_NY16(fecha) ==
    [ ASIA   |-> [inicio |-> HHMM(19, 0), fin |-> HHMM(4, 0)],
      EUROPA |-> [inicio |-> HHMM(3, 0),  fin |-> HHMM(12, 0)],
      NY     |-> [inicio |-> HHMM(9, 30), fin |-> HHMM(16, 0)] ]

obtener_horarios_sesion_et(fecha) ==
    [ ASIA   |-> [inicio |-> HHMM(19, 0), fin |-> HHMM(4, 0)],
      EUROPA |-> [inicio |-> HHMM(3, 0),  fin |-> HHMM(12, 0)],
      NY     |-> [inicio |-> HHMM(9, 30), fin |-> HHMM(17, 0)] ]

Sesiones == {"ASIA", "EUROPA", "NY"}

(***************************************************************************)
(* DataIngestion._identificar_sesion                                       *)
(***************************************************************************)
identificar_sesion_sin_fallback(ts) ==
    LET sesiones == obtener_horarios_sesion_et(ts)
        hora_str == strftime_HM(ts)
    IN  IF StrLE(sesiones.ASIA.inicio, hora_str) \/ StrLT(hora_str, sesiones.ASIA.fin)
        THEN "ASIA"
        ELSE IF StrLE(sesiones.EUROPA.inicio, hora_str) /\ StrLT(hora_str, sesiones.EUROPA.fin)
        THEN "EUROPA"
        ELSE IF StrLE(sesiones.NY.inicio, hora_str) /\ StrLT(hora_str, sesiones.NY.fin)
        THEN "NY"
        ELSE "None"

identificar_sesion_fin_inclusivo(ts) ==
    LET sesiones == obtener_horarios_sesion_et(ts)
        hora_str == strftime_HM(ts)
    IN  IF StrLE(sesiones.ASIA.inicio, hora_str) \/ StrLT(hora_str, sesiones.ASIA.fin)
        THEN "ASIA"
        ELSE IF StrLE(sesiones.EUROPA.inicio, hora_str) /\ StrLE(hora_str, sesiones.EUROPA.fin)
        THEN "EUROPA"
        ELSE "NY"

identificar_sesion(ts) ==
    LET sesiones == obtener_horarios_sesion_et(ts)
        hora_str == strftime_HM(ts)
    IN  IF StrLE(sesiones.ASIA.inicio, hora_str) \/ StrLT(hora_str, sesiones.ASIA.fin)
        THEN "ASIA"
        ELSE IF StrLE(sesiones.EUROPA.inicio, hora_str) /\ StrLT(hora_str, sesiones.EUROPA.fin)
        THEN "EUROPA"
        ELSE IF StrLE(sesiones.NY.inicio, hora_str) /\ StrLT(hora_str, sesiones.NY.fin)
        THEN "NY"
        ELSE "NY"

(***************************************************************************)
(* Candles.  A missing cell (NaN) is the marker NaN; every comparison with *)
(* NaN is false, as in pandas, and min/max/sum skip it.                    *)
(***************************************************************************)
NaN == 0 - 1000000

Lt(a, b) == a # NaN /\ b # NaN /\ a < b
Gt(a, b) == a # NaN /\ b # NaN /\ a > b
Resta(a, b) == IF a = NaN \/ b = NaN THEN NaN ELSE a - b

Indices(s) == 1..Len(s)
NoNulos(filas, col) == {filas[i][col] : i \in Indices(filas)} \ {NaN}

\* Series.min() / Series.max(): NaN when no value is present
SetMin(S) == CHOOSE x \in S : \A y \in S : x <= y
SetMax(S) == CHOOSE x \in S : \A y \in S : x >= y
col_min(filas, col) == IF NoNulos(filas, col) = {} THEN NaN ELSE SetMin(NoNulos(filas, col))
col_max(filas, col) == IF NoNulos(filas, col) = {} THEN NaN ELSE SetMax(NoNulos(filas, col))

Contar(filas, P(_)) == Cardinality({i \in Indices(filas) : P(filas[i])})

ColumnasPrecio == <<"open", "high", "low", "close">>
ColumnasEntrada == {"datetime", "open", "high", "low", "close", "volume"}

\* config.VALIDACIONES
precio_min == 1000
precio_max == 50000
volumen_min == 0
check_high_low == TRUE
check_ohlc == TRUE

\* one message of self.errores / self.warnings: its text, and the column and
\* number formatted into it (col "" and n 0 when the text has none)
Mensaje(texto, col, n) == [msg |-> texto, col |-> col, n |-> n]

(***************************************************************************)
(* DataIngestion.__init__ and cargar_datos                                 *)
(***************************************************************************)
DataIngestion == [df |-> None, errores |-> <<>>, warnings |-> <<>>]

cargar_datos(self, arch) ==
    IF arch.estado = "ok"
    THEN [self |-> [self EXCEPT !.df = Algo(arch.filas)], ret |-> TRUE]
    ELSE IF arch.estado = "missing"
    THEN [self |-> [self EXCEPT !.errores = Append(@, Mensaje("Archivo no encontrado", "", 0))],
          ret |-> FALSE]
    ELSE [self |-> [self EXCEPT !.errores = Append(@, Mensaje("Error al cargar datos", "", 0))],
          ret |-> FALSE]

(***************************************************************************)
(* DataFrame.sort_values('datetime'): pandas sorts with its default,       *)
(* unstable kind, so rows with equal datetime may come out in any order:   *)
(* the set of row sequences the call may produce.                          *)
(***************************************************************************)
Permutaciones(n) == {p \in [1..n -> 1..n] : \A i, j \in 1..n : p[i] = p[j] => i = j}

\* drop_duplicates(subset=['datetime']) before the sort: of the rows with the
\* same datetime only the first is kept
sort_values_sin_duplicados(filas) ==
    LET I == {i \in DOMAIN filas : \A j \in 1..(i - 1) : filas[j].datetime # filas[i].datetime}
    IN  { s \in [1..Cardinality(I) -> {filas[i] : i \in I}] :
            \A i, j \in 1..Cardinality(I) : i < j => s[i].datetime < s[j].datetime }

sort_values(filas) ==
    { [i \in Indices(filas) |-> filas[p[i]]] :
        p \in {q \in Permutaciones(Len(filas)) :
                 \A i, j \in Indices(filas) :
                    i < j => filas[q[i]].datetime <= filas[q[j]].datetime} }

(***************************************************************************)
(* DataIngestion.validar_datos.  The checks run in the code's order on the *)
(* running state v = [errores, warnings, validacion_ok] of the call.       *)
(***************************************************************************)
Error(v, m) == [v EXCEPT !.errores = Append(@, m), !.validacion_ok = FALSE]
Warning(v, m) == [v EXCEPT !.warnings = Append(@, m)]

\* 1. null cells: one warning for the whole frame
nulos(filas) ==
    Cardinality({<<i, col>> \in Indices(filas) \X ColumnasEntrada : filas[i][col] = NaN})

chk_nulos(v, filas) ==
    IF nulos(filas) > 0
    THEN Warning(v, Mensaje("Valores nulos encontrados", "", nulos(filas)))
    ELSE v

\* 2. price bounds of one column: minimum first, then maximum
chk_precio_min(v, filas, col) ==
    IF Lt(col_min(filas, col), precio_min)
    THEN Error(v, Mensaje("precio minimo fuera de rango", col, col_min(filas, col)))
    ELSE v

chk_precio_max_inclusivo(v, filas, col) ==
    IF col_max(filas, col) # NaN /\ col_max(filas, col) >= precio_max
    THEN Error(v, Mensaje("precio maximo fuera de rango", col, col_max(filas, col)))
    ELSE v

chk_precio_max(v, filas, col) ==
    IF Gt(col_max(filas, col), precio_max)
    THEN Error(v, Mensaje("precio maximo fuera de rango", col, col_max(filas, col)))
    ELSE v

chk_precio_col(v, filas, col) == chk_precio_max(chk_precio_min(v, filas, col), filas, col)

chk_precios(v, filas) ==
    LET RECURSIVE bucle(_)
        bucle(k) == IF k = 0 THEN v
                    ELSE chk_precio_col(bucle(k - 1), filas, ColumnasPrecio[k])
    IN  bucle(Len(ColumnasPrecio))

\* 3. volume
EsVolNegativo(r) == Lt(r.volume, volumen_min)
vol_negativo(filas) == Contar(filas, EsVolNegativo)

chk_volumen(v, filas) ==
    IF vol_negativo(filas) > 0
    THEN Error(v, Mensaje("registros con volumen negativo", "", vol_negativo(filas)))
    ELSE v

\* 4. High >= Low
EsInvalido(r) == Lt(r.high, r.low)
invalidos(filas) == Contar(filas, EsInvalido)

chk_high_low(v, filas) ==
    IF check_high_low /\ invalidos(filas) > 0
    THEN Error(v, Mensaje("velas con High < Low", "", invalidos(filas)))
    ELSE v

\* 5. open and close between low and high
EsInvalidoOpen(r) == Gt(r.open, r.high) \/ Lt(r.open, r.low)
EsInvalidoClose(r) == Gt(r.close, r.high) \/ Lt(r.close, r.low)
invalidos_open(filas) == Contar(filas, EsInvalidoOpen)
invalidos_close(filas) == Contar(filas, EsInvalidoClose)

chk_open(v, filas) ==
    IF invalidos_open(filas) > 0
    THEN Error(v, Mensaje("velas con Open fuera de rango H/L", "", invalidos_open(filas)))
    ELSE v

chk_close(v, filas) ==
    IF invalidos_close(filas) > 0
    THEN Error(v, Mensaje("velas con Close fuera de rango H/L", "", invalidos_close(filas)))
    ELSE v

chk_ohlc(v, filas) == IF check_ohlc THEN chk_close(chk_open(v, filas), filas) ELSE v

\* 6. duplicated(subset=['datetime'], keep=False): every row sharing its datetime
duplicados(filas) ==
    Cardinality({i \in Indices(filas) :
                   \E j \in Indices(filas) : j # i /\ filas[j].datetime = filas[i].datetime})

chk_duplicados(v, filas) ==
    IF duplicados(filas) > 0
    THEN Warning(v, Mensaje("timestamps duplicados encontrados", "", duplicados(filas)))
    ELSE v

\* 7. gaps: differences of consecutive rows of the sorted frame above 5 minutes
UmbralGapMinutos == 5

gaps(ordenadas) ==
    Cardinality({i \in 2..Len(ordenadas) :
                   ordenadas[i].datetime - ordenadas[i - 1].datetime > UmbralGapMinutos})

chk_gaps(v, ordenadas) ==
    IF gaps(ordenadas) > 0
    THEN Warning(v, Mensaje("gaps temporales detectados (>5 min)", "", gaps(ordenadas)))
    ELSE v

\* Checks 1 to 6, on the frame as loaded
chk_1a6_corta(v, filas) ==
    LET v1 == chk_nulos(v, filas)
        v2 == chk_precios(v1, filas)
        v3 == IF v2.validacion_ok THEN chk_volumen(v2, filas) ELSE v2
        v4 == IF v3.validacion_ok THEN chk_high_low(v3, filas) ELSE v3
        v5 == IF v4.validacion_ok THEN chk_ohlc(v4, filas) ELSE v4
    IN  IF v5.validacion_ok THEN chk_duplicados(v5, filas) ELSE v5

chk_1a6(v, filas) ==
    chk_duplicados(chk_ohlc(chk_high_low(chk_volumen(chk_precios(chk_nulos(v, filas),
        filas), filas), filas), filas), filas)

\* The whole method.  ordenadas is the outcome of sort_values on self.df.
validar_datos(self, ordenadas) ==
    IF self.df = None
    THEN [self |-> [self EXCEPT !.errores = Append(@, Mensaje("No hay datos cargados para validar", "", 0))],
          ret |-> FALSE]
    ELSE LET v0 == [errores |-> self.errores, warnings |-> self.warnings, validacion_ok |-> TRUE]
             v6 == chk_1a6(v0, Valor(self.df))
             v7 == chk_gaps(v6, ordenadas)
         IN  [self |-> [df |-> Algo(ordenadas), errores |-> v7.errores, warnings |-> v7.warnings],
              ret |-> v7.validacion_ok]

(***************************************************************************)
(* DataIngestion.enriquecer_datos                                          *)
(***************************************************************************)
\* UTC offsets, in minutes, of the zones named by ZONA_HORARIA_DATOS
\* (Buenos Aires, no daylight saving) and ZONA_HORARIA_REFERENCIA (New York,
\* EST or, when verano, EDT)
utc_offset_datos == 0 - 180
utc_offset_ny(verano) == IF verano THEN 0 - 240 ELSE 0 - 300

\* dt.tz_localize(tz_datos): the wall clock stays, the instant (UTC) is fixed
tz_localize(filas) ==
    [i \in Indices(filas) |-> [filas[i] EXCEPT !.datetime = @ - utc_offset_datos]]
\* dt.tz_convert(tz_ny) then dt.tz_localize(None): the New York wall clock
tz_convert_strip(instantes, verano) ==
    [i \in Indices(instantes) |-> [instantes[i] EXCEPT !.datetime = @ + utc_offset_ny(verano)]]

\* Where the try block can raise: the pytz.timezone lookups and the
\* localization of the naive column (a wall-clock time that does not exist or
\* is ambiguous in the source zone) both come before the first assignment to
\* self.df['datetime']; converting an aware column and stripping its zone do
\* not raise.
FallasTZ == {"no", "timezone", "tz_localize"}

convertir_zona_tardia(filas, falla, verano) ==
    IF falla = "no"
    THEN [filas |-> tz_convert_strip(tz_localize(filas), verano), aviso |-> FALSE]
    ELSE [filas |-> tz_convert_strip(tz_localize(filas), verano), aviso |-> TRUE]

convertir_zona(filas, falla, verano) ==
    IF falla = "no"
    THEN [filas |-> tz_convert_strip(tz_localize(filas), verano), aviso |-> FALSE]
    ELSE [filas |-> filas, aviso |-> TRUE]

NombresDia == <<"Monday", "Tuesday", "Wednesday", "Thursday", "Friday", "Saturday", "Sunday">>
\* model day 0 is a Monday
day_name(fecha) == NombresDia[(fecha % 7) + 1]

\* PASO 2: the derived columns of one row (dia_mes, mes and año are not
\* modelled: the model's dates are day numbers)
enriquecer_fila(r) ==
    [ datetime   |-> r.datetime,
      open       |-> r.open,
      high       |-> r.high,
      low        |-> r.low,
      close      |-> r.close,
      volume     |-> r.volume,
      fecha      |-> r.datetime \div MinutosDia,
      hora       |-> r.datetime % MinutosDia,
      dia_semana |-> day_name(r.datetime \div MinutosDia),
      rango      |-> Resta(r.high, r.low),
      sesion     |-> identificar_sesion(r.datetime) ]

enriquecer_datos(self, falla, verano) ==
    IF self.df = None
    THEN [self |-> self, consola |-> <<>>]
    ELSE LET conv == convertir_zona(Valor(self.df), falla, verano)
         IN  [self |-> [self EXCEPT
                  !.df = Algo([i \in Indices(conv.filas) |-> enriquecer_fila(conv.filas[i])])],
              consola |-> (IF conv.aviso
                           THEN <<"Advertencia al convertir zona horaria",
                                  "Continuando con timestamps originales">>
                           ELSE <<"Timestamps convertidos">>)
                          \o <<"Datos enriquecidos con columnas adicionales">>]

(***************************************************************************)
(* DataIngestion.guardar_procesado                                         *)
(***************************************************************************)
guardar_procesado(self, falla) ==
    IF self.df = None
    THEN [self |-> self, consola |-> <<"No hay datos para guardar">>]
    ELSE IF falla
    THEN [self |-> [self EXCEPT !.errores = Append(@, Mensaje("Error al guardar", "", 0))],
          consola |-> <<>>]
    ELSE [self |-> self, consola |-> <<"Datos guardados">>]

(***************************************************************************)
(* DayClassifier (src/classifier.py).  A table indexed by fecha is a       *)
(* function from the dates to the row of each date.  Percentile values are *)
(* kept multiplied by Escala, the mean as the fraction suma/n and the      *)
(* standard deviation as its square, the fraction num/den (den = 0: NaN),  *)
(* so that every comparison the code makes is exact.  The real-valued      *)
(* columns cambio_pct and volatilidad are not modelled.                    *)
(***************************************************************************)
DayClassifierInit(df) ==
    [df |-> df, stats_diarias |-> None, clasificaciones |-> None, percentiles |-> None]

Fechas(filas) == {filas[i].fecha : i \in Indices(filas)}

\* row positions of one group, in row order
Grupo(filas, f) == {i \in Indices(filas) : filas[i].fecha = f}

SumaCol(filas, I, col) ==
    LET RECURSIVE suma(_)
        suma(J) == IF J = {} THEN 0
                   ELSE LET i == CHOOSE x \in J : TRUE
                        IN  (IF filas[i][col] = NaN THEN 0 ELSE filas[i][col]) + suma(J \ {i})
    IN  suma(I)

\* groupby 'first' / 'last': the first / last present value in row order
agg_first(filas, I, col) ==
    LET P == {i \in I : filas[i][col] # NaN}
    IN  IF P = {} THEN NaN ELSE filas[SetMin(P)][col]
agg_last(filas, I, col) ==
    LET P == {i \in I : filas[i][col] # NaN}
    IN  IF P = {} THEN NaN ELSE filas[SetMax(P)][col]
agg_max(filas, I, col) ==
    LET P == {filas[i][col] : i \in I} \ {NaN}
    IN  IF P = {} THEN NaN ELSE SetMax(P)
agg_min(filas, I, col) ==
    LET P == {filas[i][col] : i \in I} \ {NaN}
    IN  IF P = {} THEN NaN ELSE SetMin(P)

direccion(x) == IF Gt(x, 0) THEN "ALCISTA" ELSE IF Lt(x, 0) THEN "BAJISTA" ELSE "NEUTRO"

stats_de_fecha(filas, f) ==
    LET I == Grupo(filas, f)
        high == agg_max(filas, I, "high")
        low == agg_min(filas, I, "low")
        open == agg_first(filas, I, "open")
        close == agg_last(filas, I, "close")
    IN  [ high          |-> high,
          low           |-> low,
          open          |-> open,
          close         |-> close,
          volume        |-> SumaCol(filas, I, "volume"),
          rango         |-> SumaCol(filas, I, "rango"),
          num_velas     |-> Cardinality(I),
          rango_diario  |-> Resta(high, low),
          cambio_diario |-> Resta(close, open),
          direccion     |-> direccion(Resta(close, open)),
          dia_semana    |-> day_name(f) ]

calcular_estadisticas_diarias(self) ==
    [self EXCEPT !.stats_diarias =
        Algo([f \in Fechas(self.df) |-> stats_de_fecha(self.df, f)])]

\* the values of a column of the table, in ascending order
Insertar(s, x) ==
    LET k == Cardinality({i \in Indices(s) : s[i] <= x})
    IN  SubSeq(s, 1, k) \o <<x>> \o SubSeq(s, k + 1, Len(s))

Ordenados(tabla, col) ==
    LET RECURSIVE ord(_)
        ord(D) == IF D = {} THEN <<>>
                  ELSE LET f == CHOOSE x \in D : TRUE
                       IN  Insertar(ord(D \ {f}), tabla[f][col])
    IN  ord(DOMAIN tabla)

Escala == 100 * 100

\* np.percentile(valores, q), linear interpolation, q given in hundredths of
\* a percent (33.33 is 3333); the result is multiplied by Escala
np_percentile(orden, q) ==
    LET pos == (Len(orden) - 1) * q
        k == pos \div Escala
        fr == pos % Escala
    IN  IF fr = 0 THEN orden[k + 1] * Escala
        ELSE orden[k + 1] * Escala + fr * (orden[k + 2] - orden[k + 1])

SumaSeq(s) ==
    LET RECURSIVE suma(_)
        suma(k) == IF k = 0 THEN 0 ELSE s[k] + suma(k - 1)
    IN  suma(Len(s))

\* np.percentile gives NaN as soon as one value is missing; the pandas
\* reductions min, max, mean and std skip the missing values
snapshot(orden) ==
    LET presentes == SelectSeq(orden, LAMBDA x : x # NaN)
        n == Len(presentes)
        S == SumaSeq(presentes)
        Q == SumaSeq([k \in Indices(presentes) |-> presentes[k] * presentes[k]])
        percentil(q) == IF n < Len(orden) THEN NaN ELSE np_percentile(orden, q)
    IN  [ p33  |-> percentil(3333),
          p50  |-> percentil(5000),
          p67  |-> percentil(6667),
          p75  |-> percentil(7500),
          p90  |-> percentil(9000),
          min  |-> IF n = 0 THEN NaN ELSE presentes[1],
          max  |-> IF n = 0 THEN NaN ELSE presentes[n],
          mean |-> [suma |-> S, n |-> n],
          std2 |-> [num |-> n * Q - S * S, den |-> n * (n - 1)] ]

calcular_percentiles(self, metrica) ==
    LET s1 == IF self.stats_diarias = None THEN calcular_estadisticas_diarias(self) ELSE self
    IN  [s1 EXCEPT !.percentiles = Algo(snapshot(Ordenados(Valor(s1.stats_diarias), metrica)))]

\* the inner function clasificar(valor) of clasificar_dias
clasificar_estricto(valor, percentiles) ==
    IF valor = NaN \/ percentiles.p67 = NaN THEN "LATERAL"
    ELSE IF valor * Escala > percentiles.p67 THEN "FUERTE"
    ELSE IF valor * Escala > percentiles.p33 THEN "INTERMEDIO"
    ELSE "LATERAL"

\* a comparison with a missing value or a missing threshold is false
clasificar(valor, percentiles) ==
    IF valor = NaN \/ percentiles.p67 = NaN THEN "LATERAL"
    ELSE IF valor * Escala >= percentiles.p67 THEN "FUERTE"
    ELSE IF valor * Escala >= percentiles.p33 THEN "INTERMEDIO"
    ELSE "LATERAL"

\* valor >= mean + 2 * std
es_outlier_inclusivo(valor, percentiles) ==
    LET n == percentiles.mean.n
        d == valor * n - percentiles.mean.suma
    IN  /\ valor # NaN
        /\ percentiles.std2.den # 0
        /\ d >= 0
        /\ d * d * percentiles.std2.den >= 4 * n * n * percentiles.std2.num

\* valor > mean + 2 * std
es_outlier(valor, percentiles) ==
    LET n == percentiles.mean.n
        d == valor * n - percentiles.mean.suma
    IN  /\ valor # NaN
        /\ percentiles.std2.den # 0
        /\ d > 0
        /\ d * d * percentiles.std2.den > 4 * n * n * percentiles.std2.num

\* clasificar_dias that drops the snapshot once it has applied it
clasificar_dias_olvida(self, metrica) ==
    LET s1 == IF self.stats_diarias = None THEN calcular_estadisticas_diarias(self) ELSE self
        s2 == IF s1.percentiles = None THEN calcular_percentiles(s1, metrica) ELSE s1
        p == Valor(s2.percentiles)
        tabla == Valor(s2.stats_diarias)
        nueva == [f \in DOMAIN tabla |->
                    [ clasificacion |-> clasificar(tabla[f][metrica], p),
                      es_outlier    |-> es_outlier(tabla[f][metrica], p) ] @@ tabla[f]]
    IN  [s2 EXCEPT !.stats_diarias = Algo(nueva), !.clasificaciones = Algo(nueva),
                   !.percentiles = None]

clasificar_dias(self, metrica) ==
    LET s1 == IF self.stats_diarias = None THEN calcular_estadisticas_diarias(self) ELSE self
        s2 == IF s1.percentiles = None THEN calcular_percentiles(s1, metrica) ELSE s1
        p == Valor(s2.percentiles)
        tabla == Valor(s2.stats_diarias)
        nueva == [f \in DOMAIN tabla |->
                    [ clasificacion |-> clasificar(tabla[f][metrica], p),
                      es_outlier    |-> es_outlier(tabla[f][metrica], p) ] @@ tabla[f]]
    IN  [s2 EXCEPT !.stats_diarias = Algo(nueva), !.clasificaciones = Algo(nueva)]

\* rachas[rachas['duracion'] > 3]
rachas_mas_de_tres(todas) == SelectSeq(todas, LAMBDA r : r.duracion > 3)

\* rachas[rachas['duracion'] >= 3]
rachas_significativas(todas) == SelectSeq(todas, LAMBDA r : r.duracion >= 3)

\* detectar_rachas: the days in date order, a new group at every change of
\* tier (the first day differs from the missing value before it), one row
\* per group (todas is the code's rachas before the filter)
detectar_rachas(self) ==
    LET RECURSIVE sort_index(_)
        sort_index(D) == IF D = {} THEN <<>>
                         ELSE <<SetMin(D)>> \o sort_index(D \ {SetMin(D)})
        todas_de(tabla, fecha) ==
            LET n == Len(fecha)
                cambio_clase(k) ==
                    k = 1 \/ tabla[fecha[k]].clasificacion # tabla[fecha[k - 1]].clasificacion
                grupo_racha(k) == Cardinality({j \in 1..k : cambio_clase(j)})
                filas(g) == {k \in 1..n : grupo_racha(k) = g}
            IN  [g \in 1..(IF n = 0 THEN 0 ELSE grupo_racha(n)) |->
                     [ tipo         |-> tabla[fecha[SetMin(filas(g))]].clasificacion,
                       fecha_inicio |-> fecha[SetMin(filas(g))],
                       fecha_fin    |-> fecha[SetMax(filas(g))],
                       duracion     |-> Cardinality(filas(g)) ]]
        resultado(s1) ==
            [ self |-> s1,
              ret  |-> rachas_significativas(
                           todas_de(Valor(s1.clasificaciones),
                                    sort_index(DOMAIN Valor(s1.clasificaciones)))) ]
    IN  CHOOSE r \in { resultado(s1) :
                          s1 \in { IF self.clasificaciones = None
                                   THEN clasificar_dias(self, "rango_diario")
                                   ELSE self } } : TRUE

(***************************************************************************)
(* SessionAnalytics and TradingPredictor.  patrones is the dict of the     *)
(* three analyses, each entry None until its analysis has run.             *)
(***************************************************************************)
SessionAnalyticsInit(df, clasificaciones) ==
    [ df |-> df, clasificaciones |-> clasificaciones,
      stats_sesiones |-> None, correlaciones |-> None ]

\* groupby('sesion'): the rows of session s of any date
GrupoSesion_sin_fecha(filas, f, s) == {i \in Indices(filas) : filas[i].sesion = s}

\* groupby(['fecha', 'sesion']): row positions of one group, in row order
GrupoSesion(filas, f, s) ==
    {i \in Indices(filas) : filas[i].fecha = f /\ filas[i].sesion = s}

\* the table is indexed by <<fecha, sesion>>, one row per group that has rows
calcular_estadisticas_por_sesion(self) ==
    LET filas == self.df
        claves == {<<filas[i].fecha, filas[i].sesion>> : i \in Indices(filas)}
        stats(f, s) ==
            LET I == GrupoSesion(filas, f, s)
                high == agg_max(filas, I, "high")
                low == agg_min(filas, I, "low")
                open == agg_first(filas, I, "open")
                close == agg_last(filas, I, "close")
            IN  [ high          |-> high,
                  low           |-> low,
                  open          |-> open,
                  close         |-> close,
                  volume        |-> SumaCol(filas, I, "volume"),
                  rango_total   |-> SumaCol(filas, I, "rango"),
                  num_velas     |-> Cardinality(I),
                  rango_sesion  |-> Resta(high, low),
                  cambio_sesion |-> Resta(close, open),
                  direccion     |-> direccion(Resta(close, open)) ]
    IN  [self EXCEPT !.stats_sesiones = Algo([k \in claves |-> stats(k[1], k[2])])]

\* Series.idxmax of the rows of date f, which lie in index order (ASIA,
\* EUROPA, NY): rows without a range are skipped and the first of the largest
\* wins; None when no row of the date has a range
idxmax(ses, f) ==
    LET orden == <<"ASIA", "EUROPA", "NY">>
        con == {i \in 1..3 : /\ <<f, orden[i]>> \in DOMAIN ses
                             /\ ses[<<f, orden[i]>>].rango_sesion # NaN}
        maximo == SetMax({ses[<<f, orden[i]>>].rango_sesion : i \in con})
    IN  IF con = {} THEN None
        ELSE Algo(<<f, orden[SetMin({i \in con : ses[<<f, orden[i]>>].rango_sesion = maximo})]>>)

\* identificar_sesion_dominante: one row per date whose idxmax is a label, in
\* date order.  On a date without any range idxmax returns NaN, and the date
\* is left out, or raises ValueError, depending on the pandas of the build
\* (idxmax_lanza); with no row at all df_dominantes has no column
\* 'sesion_dominante' and reading it raises KeyError.  ret is the table
\* returned, or the exception that ends the call.
identificar_sesion_dominante(self, idxmax_lanza) ==
    LET s1 == IF self.stats_sesiones = None THEN calcular_estadisticas_por_sesion(self)
                                            ELSE self
        RECURSIVE filas_de(_, _)
        filas_de(ses, F) ==
            IF F = {} THEN <<>>
            ELSE LET f == SetMin(F)
                     idx == idxmax(ses, f)
                 IN  (IF idx = None THEN <<>>
                      ELSE << [ fecha |-> f, sesion_dominante |-> Valor(idx)[2],
                                rango |-> ses[Valor(idx)].rango_sesion ] >>)
                     \o filas_de(ses, F \ {f})
        resultado(ses, fechas) ==
            IF idxmax_lanza /\ \E f \in fechas : idxmax(ses, f) = None
            THEN [excepcion |-> "ValueError", df_dominantes |-> <<>>]
            ELSE IF filas_de(ses, fechas) = <<>>
            THEN [excepcion |-> "KeyError", df_dominantes |-> <<>>]
            ELSE [excepcion |-> "", df_dominantes |-> filas_de(ses, fechas)]
    IN  [ self |-> s1,
          ret  |-> resultado(Valor(s1.stats_sesiones),
                             {k[1] : k \in DOMAIN Valor(s1.stats_sesiones)}) ]

TradingPredictorInit(df, clasificaciones, stats_sesiones) ==
    [ df |-> df, clasificaciones |-> clasificaciones, stats_sesiones |-> stats_sesiones,
      patrones |-> [dia_semana |-> None, sesion_previa |-> None, rachas |-> None],
      reglas_probabilisticas |-> None ]

\* round(a / b * 100, 1), in tenths of a percent; a tie goes to the even tenth
round1(a, b) ==
    LET q == (1000 * a) \div b
        r == (1000 * a) % b
    IN  IF 2 * r > b \/ (2 * r = b /\ q % 2 = 1) THEN q + 1 ELSE q

\* analizar_patrones_dia_semana: the crosstab normalised by row, reindexed to
\* the five weekdays (a weekday without days gets zeros), under the Spanish
\* names of dias_esp ("Miercoles" stands for the accented name)
analizar_patrones_dia_semana(self) ==
    LET tabla == Valor(self.clasificaciones)
        dias_esp == [ Lunes |-> "Monday", Martes |-> "Tuesday", Miercoles |-> "Wednesday",
                      Jueves |-> "Thursday", Viernes |-> "Friday" ]
        D(dia) == {f \in DOMAIN tabla : tabla[f].dia_semana = dia}
        prob(dia, clase) ==
            IF D(dia) = {} THEN 0
            ELSE round1(Cardinality({f \in D(dia) : tabla[f].clasificacion = clase}),
                        Cardinality(D(dia)))
        patrones == [dia_es \in DOMAIN dias_esp |->
                       [ prob_fuerte     |-> prob(dias_esp[dia_es], "FUERTE"),
                         prob_intermedio |-> prob(dias_esp[dia_es], "INTERMEDIO"),
                         prob_lateral    |-> prob(dias_esp[dia_es], "LATERAL") ]]
    IN  [self EXCEPT !.patrones.dia_semana = Algo(patrones)]

\* len(subset) >= 3
al_menos_tres(n) == n >= 3

\* len(subset) > 3, the guard of every pattern
mas_de_tres(n) == n > 3

\* rango > median: a day at the median is not counted
supera_mediana(rango_por_2, mediana_por_2) == rango_por_2 > mediana_por_2

\* the comparison of a day of the subset with the median of the subset,
\* asia_fuerte['EUROPA'] >= asia_fuerte['EUROPA'].median(), both doubled
alcanza_mediana(rango_por_2, mediana_por_2) == rango_por_2 >= mediana_por_2

\* analizar_patron_sesion_previa.  pivot has one row per date of
\* stats_sesiones and one column per session that occurs in it, NaN where a
\* date has no row of the session; quantile and median skip NaN and
\* interpolate linearly (compared here multiplied by 4 and by 2).
analizar_patron_sesion_previa(self) ==
    LET ss == Valor(self.stats_sesiones)
        fechas == {k[1] : k \in DOMAIN ss}
        columns == {k[2] : k \in DOMAIN ss}
        pivot(f, s) == IF <<f, s>> \in DOMAIN ss THEN ss[<<f, s>>].rango_sesion ELSE NaN
        valores(F, s) ==
            Ordenados([f \in {x \in F : pivot(x, s) # NaN} |-> [v |-> pivot(f, s)]], "v")
        p75_por_4(s) ==
            LET v == valores(fechas, s)
                pos == 3 * (Len(v) - 1)
            IN  IF pos % 4 = 0 THEN 4 * v[pos \div 4 + 1]
                ELSE 4 * v[pos \div 4 + 1]
                       + (pos % 4) * (v[pos \div 4 + 2] - v[pos \div 4 + 1])
        fuerte(s) ==
            IF valores(fechas, s) = <<>> THEN {}
            ELSE {f \in fechas : pivot(f, s) # NaN /\ 4 * pivot(f, s) >= p75_por_4(s)}
        mediana_por_2(F, s) ==
            LET v == valores(F, s)
                m == Len(v)
            IN  IF m % 2 = 1 THEN 2 * v[(m + 1) \div 2] ELSE v[m \div 2] + v[m \div 2 + 1]
        alta(F, s) ==
            IF valores(F, s) = <<>> THEN {}
            ELSE {f \in F : /\ pivot(f, s) # NaN
                            /\ alcanza_mediana(2 * pivot(f, s), mediana_por_2(F, s))}
        patron(primera, segunda, condicion, descripcion) ==
            [ condicion    |-> condicion,
              probabilidad |-> round1(Cardinality(alta(fuerte(primera), segunda)),
                                      Cardinality(fuerte(primera))),
              n_casos      |-> Cardinality(fuerte(primera)),
              descripcion  |-> descripcion ]
        hay(primera, segunda) ==
            /\ primera \in columns
            /\ segunda \in columns
            /\ mas_de_tres(Cardinality(fuerte(primera)))
        claves == {k \in {"asia_fuerte_europa", "europa_fuerte_ny"} :
                     IF k = "asia_fuerte_europa" THEN hay("ASIA", "EUROPA")
                                                 ELSE hay("EUROPA", "NY")}
        patrones == [k \in claves |->
                       IF k = "asia_fuerte_europa"
                       THEN patron("ASIA", "EUROPA", "Si ASIA mueve >P75",
                                   "Europa tambien sea activa")
                       ELSE patron("EUROPA", "NY", "Si EUROPA mueve >P75",
                                   "NY tambien sea activa")]
    IN  [self EXCEPT !.patrones.sesion_previa = Algo(patrones)]

\* df_sorted of analizar_rachas: a new table, the days in date order, each
\* with the tier of the day before it and of the day before that ("" where
\* shift leaves no value)
con_clases_previas(clasificaciones) ==
    LET RECURSIVE sort_index(_)
        sort_index(D) == IF D = {} THEN <<>>
                         ELSE <<SetMin(D)>> \o sort_index(D \ {SetMin(D)})
        shift(fecha, f, pasos) ==
            LET k == CHOOSE i \in 1..Len(fecha) : fecha[i] = f
            IN  IF k > pasos THEN clasificaciones[fecha[k - pasos]].clasificacion ELSE ""
        columnas(fecha) ==
            [f \in DOMAIN clasificaciones |->
                [ prev_clase      |-> shift(fecha, f, 1),
                  prev_prev_clase |-> shift(fecha, f, 2) ] @@ clasificaciones[f]]
    IN  columnas(sort_index(DOMAIN clasificaciones))

\* the two patterns of analizar_rachas, from df_sorted
patrones_de_rachas(df_sorted) ==
    LET dos(tipo) == {f \in DOMAIN df_sorted : /\ df_sorted[f].prev_clase = tipo
                                               /\ df_sorted[f].prev_prev_clase = tipo}
        prob(tipo, sigue) ==
            round1(Cardinality({f \in dos(tipo) : df_sorted[f].clasificacion = sigue}),
                   Cardinality(dos(tipo)))
        claves == {k \in {"post_2_laterales", "post_2_fuertes"} :
                     mas_de_tres(Cardinality(dos(IF k = "post_2_laterales" THEN "LATERAL"
                                                                          ELSE "FUERTE")))}
    IN  [k \in claves |->
            IF k = "post_2_laterales"
            THEN [ condicion |-> "Despues de 2 dias laterales consecutivos",
                   probabilidad_fuerte |-> prob("LATERAL", "FUERTE"),
                   n_casos |-> Cardinality(dos("LATERAL")),
                   descripcion |-> "Dia fuerte" ]
            ELSE [ condicion |-> "Despues de 2 dias fuertes consecutivos",
                   probabilidad_lateral |-> prob("FUERTE", "LATERAL"),
                   n_casos |-> Cardinality(dos("FUERTE")),
                   descripcion |-> "Dia lateral (consolidacion)" ]]

\* df_sorted = self.clasificaciones: the two columns are written into the
\* table the caller handed over
analizar_rachas_en_sitio(self) ==
    [self EXCEPT !.clasificaciones = Algo(con_clases_previas(Valor(self.clasificaciones))),
                 !.patrones.rachas =
                     Algo(patrones_de_rachas(con_clases_previas(Valor(self.clasificaciones))))]

\* analizar_rachas: df_sorted = self.clasificaciones.sort_index() is a table
\* of its own, so the columns added to it leave self.clasificaciones alone
analizar_rachas(self) ==
    [self EXCEPT !.patrones.rachas =
                     Algo(patrones_de_rachas(con_clases_previas(Valor(self.clasificaciones))))]

\* 'ALTA' if probabilidad > umbral else 'MEDIA'
confianza_estricta(probabilidad, umbral) == IF probabilidad > umbral THEN "ALTA" ELSE "MEDIA"

\* 'ALTA' if probabilidad >= umbral else 'MEDIA' (tenths of a percent)
confianza(probabilidad, umbral) == IF probabilidad >= umbral THEN "ALTA" ELSE "MEDIA"

\* the larger of the two probabilities decides, FUERTE on a tie
rama_dia_semana_mayor(probs) ==
    IF probs.prob_fuerte >= 450 /\ probs.prob_fuerte >= probs.prob_lateral THEN "FUERTE"
    ELSE IF probs.prob_lateral >= 450 THEN "LATERAL"
    ELSE ""

\* the branch taken for a weekday: if prob_fuerte >= 45, elif prob_lateral
\* >= 45, else no rule (probabilities in tenths of a percent)
rama_dia_semana(probs) ==
    IF probs.prob_fuerte >= 450 THEN "FUERTE"
    ELSE IF probs.prob_lateral >= 450 THEN "LATERAL"
    ELSE ""

\* generar_reglas_probabilisticas: the three analyses first when no pattern
\* is held yet, then one pass over each kind of pattern, in the order the
\* dicts were filled; probabilities and thresholds in tenths of a percent
generar_reglas_probabilisticas(self) ==
    LET vacio == /\ self.patrones.dia_semana = None
                 /\ self.patrones.sesion_previa = None
                 /\ self.patrones.rachas = None
        s1 == IF vacio
              THEN analizar_rachas(analizar_patron_sesion_previa(
                       analizar_patrones_dia_semana(self)))
              ELSE self
        reglas_de(patrones) ==
            LET get(clave) == IF patrones[clave] = None THEN <<>> ELSE Valor(patrones[clave])
                regla(tipo, condicion, prediccion, probabilidad, umbral, tactica) ==
                    << [ tipo |-> tipo, condicion |-> condicion, prediccion |-> prediccion,
                         probabilidad |-> probabilidad,
                         confianza |-> confianza(probabilidad, umbral),
                         tactica |-> tactica ] >>
                de_dia(dia) ==
                    IF dia \notin DOMAIN get("dia_semana") THEN <<>>
                    ELSE LET probs == get("dia_semana")[dia]
                         IN  IF rama_dia_semana(probs) = "FUERTE"
                             THEN regla("DIA_SEMANA", "Es " \o dia, "Dia FUERTE probable",
                                        probs.prob_fuerte, 500,
                                        "Dejar correr trades | Posiciones mas grandes | Buscar breakouts")
                             ELSE IF rama_dia_semana(probs) = "LATERAL"
                             THEN regla("DIA_SEMANA", "Es " \o dia, "Dia LATERAL probable",
                                        probs.prob_lateral, 500,
                                        "Scalping | Range trading | Reducir exposicion")
                             ELSE <<>>
                de_sesion(key) ==
                    IF key \notin DOMAIN get("sesion_previa") THEN <<>>
                    ELSE LET patron == get("sesion_previa")[key]
                         IN  IF patron.probabilidad >= 600
                             THEN regla("SESION_PREVIA", patron.condicion, patron.descripcion,
                                        patron.probabilidad, 700,
                                        "Preparar estrategia para sesion activa")
                             ELSE <<>>
                de_racha(key) ==
                    IF key \notin DOMAIN get("rachas") THEN <<>>
                    ELSE LET patron == get("rachas")[key]
                         IN  IF "probabilidad_fuerte" \in DOMAIN patron
                                /\ patron.probabilidad_fuerte >= 500
                             THEN regla("RACHA", patron.condicion, patron.descripcion,
                                        patron.probabilidad_fuerte, 650,
                                        "Anticipar expansion de volatilidad")
                             ELSE IF "probabilidad_lateral" \in DOMAIN patron
                                     /\ patron.probabilidad_lateral >= 500
                             THEN regla("RACHA", patron.condicion, patron.descripcion,
                                        patron.probabilidad_lateral, 650,
                                        "Esperar consolidacion | Reducir tamano")
                             ELSE <<>>
            IN  de_dia("Lunes") \o de_dia("Martes") \o de_dia("Miercoles")
                    \o de_dia("Jueves") \o de_dia("Viernes")
                    \o de_sesion("asia_fuerte_europa") \o de_sesion("europa_fuerte_ny")
                    \o de_racha("post_2_laterales") \o de_racha("post_2_fuertes")
    IN  [s1 EXCEPT !.reglas_probabilisticas = Algo(reglas_de(s1.patrones))]

(***************************************************************************)
(* The files the pipeline is run on                                        *)
(***************************************************************************)
MaxCandles == 2

\* 05:55 of model day 1 in the source zone
T0 == MinutosDia + 5 * 60 + 55

VelaBase ==
    [ datetime |-> T0, open |-> precio_min + 2, high |-> precio_min + 3,
      low |-> precio_min + 1, close |-> precio_min + 2, volume |-> 1 ]

Alternativas(col) ==
    IF col = "datetime" THEN {T0 + UmbralGapMinutos, T0 + UmbralGapMinutos + 1, MinutosDia + 30}
    ELSE IF col = "volume" THEN {volumen_min - 1, volumen_min, NaN}
    ELSE {precio_min - 1, precio_min, precio_min + 4, precio_max, precio_max + 1, NaN}

\* a well-formed candle, or one that departs from it in one cell
Velas ==
    {VelaBase} \cup
    UNION { {[VelaBase EXCEPT ![col] = x] : x \in Alternativas(col)} : col \in ColumnasEntrada }

\* read_csv raises on an empty file, so a loaded frame has at least one row
Archivos ==
    { [estado |-> e, filas |-> <<>>, verano |-> FALSE] : e \in {"missing", "malformed"} }
    \cup
    { [estado |-> "ok", filas |-> f, verano |-> b] :
        f \in UNION {[1..n -> Velas] : n \in 1..MaxCandles}, b \in BOOLEAN }

(***************************************************************************)
(* DataIngestion.procesar, one action per method it calls, and its two     *)
(* callers: procesar_archivo of the dashboard (guardar=False) and the      *)
(* script's __main__ (guardar=True).                                       *)
(***************************************************************************)
Llamada(metodo, resultado) == [metodo |-> metodo, ret |-> resultado]

guardar == llamador = "__main__"

procesar_tras_cargar(ok) == IF ok THEN "validar" ELSE "retorno"

procesar_tras_validar_sin_control(ok) == "enriquecer"

procesar_tras_validar(ok) == IF ok THEN "enriquecer" ELSE "retorno"

procesar_tras_enriquecer(g) == IF g THEN "guardar" ELSE "resumen"

\* the variables a specification does not use keep these values
ReposoSesion ==
    /\ timestamp = 0
    /\ sesion = "none"
    /\ fecha_dst = [year |-> 0, month |-> 1, day |-> 1, hour |-> 0]
    /\ dst = None
ReposoIng ==
    /\ llamador = "procesar_archivo"
    /\ archivo = [estado |-> "missing", filas |-> <<>>, verano |-> FALSE]
    /\ ing = DataIngestion
    /\ pc = "fin"
    /\ ret = None
    /\ traza = <<>>
    /\ consola = <<>>
ReposoClf ==
    /\ clf = DayClassifierInit(<<>>)
    /\ ultima = [metodo |-> "", metrica |-> "", repetida |-> FALSE]
ReposoAna ==
    /\ rachas = None
    /\ dominantes = None
    /\ ana = SessionAnalyticsInit(<<>>, None)
    /\ pred = TradingPredictorInit(<<>>, None, None)

InitIng ==
    /\ llamador \in {"procesar_archivo", "__main__"}
    /\ archivo \in Archivos
    /\ ing = DataIngestion
    /\ pc = "procesar"
    /\ ret = None
    /\ traza = <<>>
    /\ consola = <<>>
    /\ ReposoSesion
    /\ ReposoClf
    /\ ReposoAna

\* 1. Cargar
Procesar_cargar ==
    /\ pc = "procesar"
    /\ LET r == cargar_datos(ing, archivo)
       IN  /\ ing' = r.self
           /\ traza' = Append(traza, Llamada("cargar_datos", r.ret))
           /\ consola' = IF r.ret THEN Append(consola, "Archivo cargado")
                                  ELSE Append(consola, "Fallo al cargar datos")
           /\ pc' = procesar_tras_cargar(r.ret)
    /\ UNCHANGED <<llamador, archivo, ret, sesionVars, clfVars, anaVars>>

\* 2. Validar
Procesar_validar ==
    /\ pc = "validar"
    /\ \E ordenadas \in sort_values(Valor(ing.df)) :
         LET r == validar_datos(ing, ordenadas)
         IN  /\ ing' = r.self
             /\ traza' = Append(traza, Llamada("validar_datos", r.ret))
             /\ consola' = IF r.ret THEN consola ELSE Append(consola, "Validacion fallo")
             /\ pc' = procesar_tras_validar(r.ret)
    /\ UNCHANGED <<llamador, archivo, ret, sesionVars, clfVars, anaVars>>

\* 3. Enriquecer
Procesar_enriquecer ==
    /\ pc = "enriquecer"
    /\ \E falla \in FallasTZ :
         LET r == enriquecer_datos(ing, falla, archivo.verano)
         IN  /\ ing' = r.self
             /\ traza' = Append(traza, Llamada("enriquecer_datos", falla = "no"))
             /\ consola' = consola \o r.consola
    /\ pc' = procesar_tras_enriquecer(guardar)
    /\ UNCHANGED <<llamador, archivo, ret, sesionVars, clfVars, anaVars>>

\* 4. Guardar (optional)
Procesar_guardar ==
    /\ pc = "guardar"
    /\ \E falla \in BOOLEAN :
         LET r == guardar_procesado(ing, falla)
         IN  /\ ing' = r.self
             /\ traza' = Append(traza, Llamada("guardar_procesado", ~falla))
             /\ consola' = consola \o r.consola
    /\ pc' = "resumen"
    /\ UNCHANGED <<llamador, archivo, ret, sesionVars, clfVars, anaVars>>

\* 5. mostrar_resumen only prints; return self.df
Procesar_retornar ==
    /\ pc = "resumen"
    /\ ret' = ing.df
    /\ pc' = "retorno"
    /\ UNCHANGED <<llamador, archivo, ing, traza, consola, sesionVars, clfVars, anaVars>>

\* procesar_archivo, after procesar: the classification stage, or st.error
Archivo_clasificacion ==
    /\ pc = "retorno"
    /\ llamador = "procesar_archivo"
    /\ ret # None
    /\ traza' = Append(traza, Llamada("DayClassifier", TRUE))
    /\ pc' = "clasificacion"
    /\ UNCHANGED <<llamador, archivo, ing, ret, consola, sesionVars, clfVars, anaVars>>

Archivo_error ==
    /\ pc = "retorno"
    /\ llamador = "procesar_archivo"
    /\ ret = None
    /\ consola' = Append(consola, "Error al procesar el archivo")
    /\ pc' = "fin"
    /\ UNCHANGED <<llamador, archivo, ing, ret, traza, sesionVars, clfVars, anaVars>>

\* __main__, after procesar
Main_fin ==
    /\ pc = "retorno"
    /\ llamador = "__main__"
    /\ consola' = IF ret # None
                  THEN Append(consola, "Pipeline de ingestion completado exitosamente")
                  ELSE consola
    /\ pc' = "fin"
    /\ UNCHANGED <<llamador, archivo, ing, ret, traza, sesionVars, clfVars, anaVars>>

NextIng ==
    \/ Procesar_cargar
    \/ Procesar_validar
    \/ Procesar_enriquecer
    \/ Procesar_guardar
    \/ Procesar_retornar
    \/ Archivo_clasificacion
    \/ Archivo_error
    \/ Main_fin

(***************************************************************************)
(* _identificar_sesion applied to a timestamp                               *)
(***************************************************************************)
InitSesion ==
    /\ timestamp \in 0..(MinutosDia - 1)
    /\ sesion = "none"
    /\ fecha_dst = [year |-> 0, month |-> 1, day |-> 1, hour |-> 0]
    /\ dst = None
    /\ ReposoIng
    /\ ReposoClf
    /\ ReposoAna

IdentificarSesion ==
    /\ sesion = "none"
    /\ sesion' = identificar_sesion(timestamp)
    /\ UNCHANGED <<timestamp, fecha_dst, dst, ingVars, clfVars, anaVars>>

NextSesion == IdentificarSesion

SpecSesion == InitSesion /\ [][NextSesion]_vars

(***************************************************************************)
(* _es_dst_usa applied to a datetime of the years AnioMin..AnioMax, at the *)
(* hours around the 02:00 switch and at two hours far from it              *)
(***************************************************************************)
AnioMin == 2020
AnioMax == 2030

DiasDelMes(year, month) ==
    IF month = 2
    THEN (IF year % 4 = 0 /\ (year % 100 # 0 \/ year % 400 = 0) THEN 29 ELSE 28)
    ELSE IF month \in {4, 6, 9, 11} THEN 30 ELSE 31

FechasDst ==
    { f \in [year : AnioMin..AnioMax, month : 1..12, day : 1..31, hour : {0, 1, 2, 3, 12, 23}] :
        f.day <= DiasDelMes(f.year, f.month) }

InitDst ==
    /\ fecha_dst \in FechasDst
    /\ dst = None
    /\ timestamp = 0
    /\ sesion = "none"
    /\ ReposoIng
    /\ ReposoClf
    /\ ReposoAna

EsDstUsa ==
    /\ dst = None
    /\ dst' = Algo(es_dst_usa(fecha_dst))
    /\ UNCHANGED <<timestamp, sesion, fecha_dst, ingVars, clfVars, anaVars>>

NextDst == EsDstUsa

SpecDst == InitDst /\ [][NextDst]_vars

SpecIngest == InitIng /\ [][NextIng]_vars

(***************************************************************************)
(* DayClassifier driven through its public methods, in any order, on an    *)
(* enriched dataset of consecutive days                                    *)
(***************************************************************************)
MaxDias == 4

RangosVela == {0, 1, 2}
VolumenesVela == {1, 2}
Metricas == {"rango_diario", "volume"}

\* the candle of day d, at 10:00 New York time, of range r (r = NaN: the
\* candle has no high)
VelaDelDia(d, r, v) ==
    enriquecer_fila([ datetime |-> d * MinutosDia + 10 * 60,
                      open |-> precio_min + 1,
                      high |-> IF r = NaN THEN NaN ELSE precio_min + 1 + r,
                      low |-> precio_min + 1,
                      close |-> IF r = NaN THEN precio_min + 1 ELSE precio_min + 1 + r,
                      volume |-> v ])

Datasets ==
    UNION { { [d \in 1..n |-> VelaDelDia(d, rv[d][1], rv[d][2])] :
                rv \in [1..n -> RangosVela \X VolumenesVela] } : n \in 1..MaxDias }

InitClf ==
    /\ clf \in {DayClassifierInit(df) : df \in Datasets}
    /\ ultima = [metodo |-> "__init__", metrica |-> "", repetida |-> FALSE]
    /\ ReposoSesion
    /\ ReposoIng
    /\ ReposoAna

\* the record of a call: repetida when the call before it was the same
Llamada_clf(metodo, metrica) ==
    [ metodo |-> metodo, metrica |-> metrica,
      repetida |-> (ultima.metodo = metodo /\ ultima.metrica = metrica) ]

CalcularEstadisticasDiarias ==
    /\ clf' = calcular_estadisticas_diarias(clf)
    /\ ultima' = Llamada_clf("calcular_estadisticas_diarias", "")
    /\ UNCHANGED <<sesionVars, ingVars, anaVars>>

CalcularPercentiles ==
    /\ \E metrica \in Metricas :
          /\ clf' = calcular_percentiles(clf, metrica)
          /\ ultima' = Llamada_clf("calcular_percentiles", metrica)
    /\ UNCHANGED <<sesionVars, ingVars, anaVars>>

ClasificarDias ==
    /\ \E metrica \in Metricas :
          /\ clf' = clasificar_dias(clf, metrica)
          /\ ultima' = Llamada_clf("clasificar_dias", metrica)
    /\ UNCHANGED <<sesionVars, ingVars, anaVars>>

NextClf ==
    \/ CalcularEstadisticasDiarias
    \/ CalcularPercentiles
    \/ ClasificarDias

SpecClasif == InitClf /\ [][NextClf]_vars

(***************************************************************************)
(* clasificar_dias() with its default metric on a fresh DayClassifier, on  *)
(* datasets of 21 days long enough for a day to lie beyond mean + 2*std:   *)
(* 18 days of fixed daily range and three days of a large one; and on      *)
(* datasets of up to MaxDiasHueco days of range 0 or 1, some of them        *)
(* without a high.                                                         *)
(***************************************************************************)
MaxDiasHueco == 7

DatasetsConHuecos ==
    UNION { { [d \in 1..n |-> VelaDelDia(d, r[d], 1)] : r \in [1..n -> {0, 1, NaN}] } :
            n \in 1..MaxDiasHueco }

RangosCuerpo ==
    <<105, 81, 103, 83, 103, 83, 103, 83, 103, 83, 103, 83, 103, 83, 102, 84, 102, 84>>
RangosCola == 138..146

DatasetsUmbral ==
    { [d \in 1..(Len(RangosCuerpo) + 3) |->
          VelaDelDia(d, IF d <= Len(RangosCuerpo) THEN RangosCuerpo[d]
                                                 ELSE c[d - Len(RangosCuerpo)], 1)] :
        c \in [1..3 -> RangosCola] }

InitUmbral ==
    /\ clf \in {DayClassifierInit(df) : df \in DatasetsUmbral \cup DatasetsConHuecos}
    /\ ultima = [metodo |-> "__init__", metrica |-> "", repetida |-> FALSE]
    /\ ReposoSesion
    /\ ReposoIng
    /\ ReposoAna

ClasificarDiasPorDefecto ==
    /\ clf' = clasificar_dias(clf, "rango_diario")
    /\ ultima' = Llamada_clf("clasificar_dias", "rango_diario")
    /\ UNCHANGED <<sesionVars, ingVars, anaVars>>

NextUmbral == ClasificarDiasPorDefecto

SpecUmbral == InitUmbral /\ [][NextUmbral]_vars

(***************************************************************************)
(* detectar_rachas on a DayClassifier built on one candle per day, the     *)
(* days consecutive or with a weekend after the third                      *)
(***************************************************************************)
MaxDiasRacha == 7

DatasetsRacha ==
    UNION { { [d \in 1..n |-> VelaDelDia(IF d > 3 THEN d + salto ELSE d, r[d], 1)] :
                r \in [1..n -> RangosVela], salto \in {0, 2} } : n \in 1..MaxDiasRacha }

InitRachas ==
    /\ clf \in {DayClassifierInit(df) : df \in DatasetsRacha}
    /\ ultima = [metodo |-> "__init__", metrica |-> "", repetida |-> FALSE]
    /\ rachas = None
    /\ dominantes = None
    /\ ana = SessionAnalyticsInit(<<>>, None)
    /\ pred = TradingPredictorInit(<<>>, None, None)
    /\ ReposoSesion
    /\ ReposoIng

DetectarRachas ==
    /\ LET r == detectar_rachas(clf)
       IN  clf' = r.self /\ rachas' = Algo(r.ret)
    /\ ultima' = Llamada_clf("detectar_rachas", "")
    /\ UNCHANGED <<sesionVars, ingVars, dominantes, ana, pred>>

NextRachas == DetectarRachas

SpecRachas == InitRachas /\ [][NextRachas]_vars

(***************************************************************************)
(* The daily and the per-session aggregation of one enriched dataset,      *)
(* handed to DayClassifier and SessionAnalytics in any row order.  A       *)
(* candle is one of a few price profiles (a missing open or high among     *)
(* them) at one of a few times of two days, in New York time.              *)
(***************************************************************************)
MaxVelasAgg == 3

HorasVela ==
    { MinutosDia + 2 * 60, MinutosDia + 5 * 60, MinutosDia + 5 * 60 + 1,
      2 * MinutosDia + 5 * 60 }

PerfilesVela ==
    { [open |-> precio_min + 1, high |-> precio_min + 3, low |-> precio_min,
       close |-> precio_min + 2, volume |-> 1],
      [open |-> precio_min + 2, high |-> precio_min + 4, low |-> precio_min + 1,
       close |-> precio_min + 1, volume |-> 2],
      [open |-> NaN, high |-> precio_min + 3, low |-> precio_min + 1,
       close |-> precio_min + 2, volume |-> 1],
      [open |-> precio_min + 1, high |-> NaN, low |-> precio_min,
       close |-> precio_min + 1, volume |-> 2] }

DatasetsAgg ==
    LET Vela == { enriquecer_fila([datetime |-> t] @@ p) : t \in HorasVela, p \in PerfilesVela }
    IN  UNION { [1..n -> Vela] : n \in 1..MaxVelasAgg }

InitAgg ==
    /\ \E df \in DatasetsAgg :
          /\ clf = DayClassifierInit(df)
          /\ ana = SessionAnalyticsInit(df, None)
    /\ ultima = [metodo |-> "__init__", metrica |-> "", repetida |-> FALSE]
    /\ rachas = None
    /\ dominantes = None
    /\ pred = TradingPredictorInit(<<>>, None, None)
    /\ ReposoSesion
    /\ ReposoIng

CalcularEstadisticasPorSesion ==
    /\ ana' = calcular_estadisticas_por_sesion(ana)
    /\ UNCHANGED <<sesionVars, ingVars, clfVars, rachas, dominantes, pred>>

IdentificarSesionDominante ==
    /\ \E idxmax_lanza \in BOOLEAN :
          LET r == identificar_sesion_dominante(ana, idxmax_lanza)
          IN  ana' = r.self /\ dominantes' = Algo(r.ret)
    /\ UNCHANGED <<sesionVars, ingVars, clfVars, rachas, pred>>

NextAgg ==
    \/ CalcularEstadisticasDiarias
    \/ CalcularEstadisticasPorSesion
    \/ IdentificarSesionDominante

SpecAgg == InitAgg /\ [][NextAgg]_vars

(***************************************************************************)
(* TradingPredictor on the classification table and the session table it   *)
(* is constructed with, its four public methods called in any order.  The  *)
(* inputs are either a sequence of FUERTE / LATERAL days that all have the  *)
(* three sessions with the same range, or days whose tiers rotate and      *)
(* whose session ranges vary (NaN: the day has no candle of the session).  *)
(***************************************************************************)
MaxDiasPred == 8
MaxDiasSesion == 5

Tramos == <<"FUERTE", "INTERMEDIO", "LATERAL">>

RangosSesion ==
    { [ASIA |-> 1, EUROPA |-> 0, NY |-> 0], [ASIA |-> 1, EUROPA |-> 1, NY |-> 1],
      [ASIA |-> 0, EUROPA |-> 0, NY |-> 0], [ASIA |-> 1, EUROPA |-> NaN, NY |-> 1] }

\* the two tables of n days with tiers c[d] and session ranges r[d]
EntradasPred(n, c, r) ==
    [ clasificaciones |->
        [d \in 1..n |-> [clasificacion |-> c[d], dia_semana |-> day_name(d)]],
      stats_sesiones |->
        [k \in {x \in (1..n) \X Sesiones : r[x[1]][x[2]] # NaN} |->
            [rango_sesion |-> r[k[1]][k[2]]]] ]

InitPred ==
    /\ \E e \in UNION { {EntradasPred(n, c, [d \in 1..n |-> [ASIA |-> 1, EUROPA |-> 1, NY |-> 1]]) :
                             c \in [1..n -> {"FUERTE", "LATERAL"}]} : n \in 1..MaxDiasPred }
               \cup
               UNION { {EntradasPred(n, [d \in 1..n |-> Tramos[(d % 3) + 1]], r) :
                             r \in [1..n -> RangosSesion]} : n \in 1..MaxDiasSesion } :
          pred = TradingPredictorInit(<<>>, Algo(e.clasificaciones), Algo(e.stats_sesiones))
    /\ rachas = None
    /\ dominantes = None
    /\ ana = SessionAnalyticsInit(<<>>, None)
    /\ ReposoSesion
    /\ ReposoIng
    /\ ReposoClf

AnalizarPatronesDiaSemana ==
    /\ pred' = analizar_patrones_dia_semana(pred)
    /\ UNCHANGED <<sesionVars, ingVars, clfVars, rachas, dominantes, ana>>

AnalizarPatronSesionPrevia ==
    /\ pred' = analizar_patron_sesion_previa(pred)
    /\ UNCHANGED <<sesionVars, ingVars, clfVars, rachas, dominantes, ana>>

AnalizarRachas ==
    /\ pred' = analizar_rachas(pred)
    /\ UNCHANGED <<sesionVars, ingVars, clfVars, rachas, dominantes, ana>>

GenerarReglasProbabilisticas ==
    /\ pred' = generar_reglas_probabilisticas(pred)
    /\ UNCHANGED <<sesionVars, ingVars, clfVars, rachas, dominantes, ana>>

NextPred ==
    \/ AnalizarPatronesDiaSemana
    \/ AnalizarPatronSesionPrevia
    \/ AnalizarRachas
    \/ GenerarReglasProbabilisticas

SpecPred == InitPred /\ [][NextPred]_vars

(***************************************************************************)
(* The three analysis objects on the tables of one caller: DayClassifier   *)
(* and SessionAnalytics are built on the dataset, SessionAnalytics and     *)
(* TradingPredictor on the classification table and the session table     *)
(* computed from it; the public methods of the three are called in any     *)
(* order.                                                                  *)
(***************************************************************************)
MaxDiasMarco == 2

DatasetsMarco ==
    UNION { { [d \in 1..n |-> VelaDelDia(d, r[d], 1)] : r \in [1..n -> {0, 1}] } :
            n \in 1..MaxDiasMarco }

\* the tables the caller obtains from the dataset and hands on
TablasDe(df) ==
    [ clasificaciones |->
        clasificar_dias(DayClassifierInit(df), "rango_diario").clasificaciones,
      stats_sesiones |->
        calcular_estadisticas_por_sesion(SessionAnalyticsInit(df, None)).stats_sesiones ]

InitMarco ==
    /\ \E df \in DatasetsMarco :
          /\ clf = DayClassifierInit(df)
          /\ ana = SessionAnalyticsInit(df, TablasDe(df).clasificaciones)
          /\ pred = TradingPredictorInit(df, TablasDe(df).clasificaciones,
                                         TablasDe(df).stats_sesiones)
    /\ ultima = [metodo |-> "__init__", metrica |-> "", repetida |-> FALSE]
    /\ rachas = None
    /\ dominantes = None
    /\ ReposoSesion
    /\ ReposoIng

NextMarco ==
    \/ CalcularEstadisticasDiarias
    \/ CalcularPercentiles
    \/ ClasificarDias
    \/ DetectarRachas
    \/ CalcularEstadisticasPorSesion
    \/ IdentificarSesionDominante
    \/ AnalizarPatronesDiaSemana
    \/ AnalizarPatronSesionPrevia
    \/ AnalizarRachas
    \/ GenerarReglasProbabilisticas

SpecMarco == InitMarco /\ [][NextMarco]_vars

(***************************************************************************)
(* validar_datos called again and again on one DataIngestion after          *)
(* cargar_datos; traza records the verdict of every call.                   *)
(***************************************************************************)
MaxValidaciones == 3
MaxVelasValidar == 2

\* the candles that depart from the well-formed one in the timestamp, the
\* high or the volume
VelasValidar ==
    {v \in Velas : \A col \in {"open", "low", "close"} : v[col] = VelaBase[col]}

ArchivosValidar ==
    { [estado |-> e, filas |-> <<>>, verano |-> FALSE] : e \in {"missing", "malformed"} }
    \cup
    { [estado |-> "ok", filas |-> f, verano |-> FALSE] :
        f \in UNION {[1..n -> VelasValidar] : n \in 1..MaxVelasValidar} }

InitValidar ==
    /\ archivo \in ArchivosValidar
    /\ ing = cargar_datos(DataIngestion, archivo).self
    /\ llamador = "procesar_archivo"
    /\ pc = "fin"
    /\ ret = None
    /\ traza = <<>>
    /\ consola = <<>>
    /\ ReposoSesion
    /\ ReposoClf
    /\ ReposoAna

ValidarDatos ==
    /\ Len(traza) < MaxValidaciones
    /\ \E ordenadas \in (IF ing.df = None THEN {<<>>} ELSE sort_values(Valor(ing.df))) :
         LET r == validar_datos(ing, ordenadas)
         IN  /\ ing' = r.self
             /\ traza' = Append(traza, Llamada("validar_datos", r.ret))
    /\ UNCHANGED <<llamador, archivo, pc, ret, consola, sesionVars, clfVars, anaVars>>

NextValidar == ValidarDatos

SpecValidar == InitValidar /\ [][NextValidar]_vars

(***************************************************************************)
(* generar_reglas_probabilisticas as a function of the patterns held: the  *)
(* predictor starts with patterns whose probabilities (tenths of a         *)
(* percent) lie at and just under each threshold of the rule generation.   *)
(***************************************************************************)
PatronesReglas ==
    LET cerca(minimo, segundo) == {minimo - 1, minimo, segundo - 1, segundo}
        dia(f, l) == [ prob_fuerte |-> f, prob_intermedio |-> 1000 - f - l, prob_lateral |-> l ]
        nada == dia(0, 0)
        dias == { [ Lunes |-> dia(f, l), Martes |-> nada, Miercoles |-> nada,
                    Jueves |-> nada, Viernes |-> nada ] :
                  f \in cerca(450, 500), l \in cerca(450, 500) }
        sesiones == { <<>> } \cup
            { [ asia_fuerte_europa |->
                  [ condicion |-> "Si ASIA mueve >P75", probabilidad |-> q,
                    n_casos |-> 1000, descripcion |-> "Europa tambien sea activa" ] ] :
              q \in cerca(600, 700) }
        laterales == { <<>> } \cup
            { [ post_2_laterales |->
                  [ condicion |-> "Despues de 2 dias laterales consecutivos",
                    probabilidad_fuerte |-> q, n_casos |-> 1000,
                    descripcion |-> "Dia fuerte" ] ] : q \in cerca(500, 650) }
        fuertes == { <<>> } \cup
            { [ post_2_fuertes |->
                  [ condicion |-> "Despues de 2 dias fuertes consecutivos",
                    probabilidad_lateral |-> q, n_casos |-> 1000,
                    descripcion |-> "Dia lateral (consolidacion)" ] ] : q \in cerca(500, 650) }
    IN  { [ dia_semana |-> Algo(d), sesion_previa |-> Algo(s), rachas |-> Algo(a @@ b) ] :
          d \in dias, s \in sesiones, a \in laterales, b \in fuertes }

InitReglas ==
    /\ \E p \in PatronesReglas :
          pred = [TradingPredictorInit(<<>>, Algo(<<>>), Algo(<<>>)) EXCEPT !.patrones = p]
    /\ rachas = None
    /\ dominantes = None
    /\ ana = SessionAnalyticsInit(<<>>, None)
    /\ ReposoSesion
    /\ ReposoIng
    /\ ReposoClf

NextReglas == GenerarReglasProbabilisticas

SpecReglas == InitReglas /\ [][NextReglas]_vars

(***************************************************************************)
(* Properties of the session assignment (SpecSesion)                       *)
(***************************************************************************)
minuto == timestamp % MinutosDia

\* the configured window of session S read as a daily cycle: a window whose
\* end precedes its start wraps midnight
EnVentana(S, t) ==
    LET w == obtener_horarios_sesion_et(t)[S]
        h == strftime_HM(t)
    IN  IF StrLT(w.fin, w.inicio)
        THEN StrLE(w.inicio, h) \/ StrLT(h, w.fin)
        ELSE StrLE(w.inicio, h) /\ StrLT(h, w.fin)

Ventanas(t) == {S \in Sesiones : EnVentana(S, t)}

\* C1: for every minute of the day _identificar_sesion returns one of ASIA,
\* EUROPA, NY, and every minute from 17:00 up to (not including) 19:00 is NY.
C1_SesionTotal ==
    sesion # "none" =>
        /\ sesion \in Sesiones
        /\ (17 * 60 <= minuto /\ minuto < 19 * 60) => sesion = "NY"

C1_Witness == sesion = "NY" /\ minuto = 18 * 60 + 59

\* C2 as stated: for each session S the minute equal to S's configured start is
\* classified as S and the minute equal to S's configured end is not.
C2_Original ==
    sesion # "none" =>
        \A S \in Sesiones :
            LET w == obtener_horarios_sesion_et(timestamp)[S]
            IN  /\ strftime_HM(timestamp) = w.inicio => sesion = S
                /\ strftime_HM(timestamp) = w.fin => sesion # S

\* C2 amended: the intervals a session is assigned on are start-inclusive and
\* end-exclusive, but they are ASIA [19:00, 04:00), EUROPA [04:00, 12:00) and
\* NY [12:00, 19:00), not the configured windows: 03:00 (EUROPA's start) is
\* ASIA, 09:30 (NY's start) is EUROPA and 17:00 (NY's end) is NY.
C2_LimitesEfectivos ==
    sesion # "none" =>
        /\ sesion = "ASIA" <=> (minuto >= 19 * 60 \/ minuto < 4 * 60)
        /\ sesion = "EUROPA" <=> (4 * 60 <= minuto /\ minuto < 12 * 60)
        /\ sesion = "NY" <=> (12 * 60 <= minuto /\ minuto < 19 * 60)

C2_Witness ==
    /\ strftime_HM(timestamp) = obtener_horarios_sesion_et(timestamp).EUROPA.inicio
    /\ sesion = "ASIA"

\* C3 as stated: every minute of the day lies inside exactly one of the three
\* configured windows.
C3_Original == sesion # "none" => Cardinality(Ventanas(timestamp)) = 1

\* C3 amended: the configured windows overlap on 03:00-04:00 (ASIA, EUROPA)
\* and on 09:30-12:00 (EUROPA, NY) and leave 17:00-19:00 uncovered; every
\* other minute lies in exactly one window, and the session assigned to a
\* minute is the first window containing it in the order ASIA, EUROPA, NY,
\* or NY when no window contains it.
C3_VentanasYAsignacion ==
    sesion # "none" =>
        LET V == Ventanas(timestamp)
        IN  /\ V = {} <=> (17 * 60 <= minuto /\ minuto < 19 * 60)
            /\ V = {"ASIA", "EUROPA"} <=> (3 * 60 <= minuto /\ minuto < 4 * 60)
            /\ V = {"EUROPA", "NY"} <=> (9 * 60 + 30 <= minuto /\ minuto < 12 * 60)
            /\ Cardinality(V) \in {0, 1, 2}
            /\ Cardinality(V) = 2 => V \in {{"ASIA", "EUROPA"}, {"EUROPA", "NY"}}
            /\ sesion = (IF "ASIA" \in V THEN "ASIA"
                         ELSE IF "EUROPA" \in V THEN "EUROPA" ELSE "NY")

C3_Witness ==
    /\ Ventanas(timestamp) = {"EUROPA", "NY"}
    /\ sesion = "EUROPA"

(***************************************************************************)
(* Properties of the ingestion pipeline (SpecIngest)                       *)
(***************************************************************************)
Llamadas(metodo) == {k \in 1..Len(traza) : traza[k].metodo = metodo}
Llamado(metodo) == Llamadas(metodo) # {}
Resultado(metodo) == traza[CHOOSE k \in Llamadas(metodo) : TRUE].ret
Retornado == pc \in {"retorno", "clasificacion", "fin"}
Textos(mensajes) == {mensajes[k].msg : k \in 1..Len(mensajes)}

HayHighLtLow(filas) ==
    \E i \in Indices(filas) :
        filas[i].high # NaN /\ filas[i].low # NaN /\ filas[i].high < filas[i].low

\* C4: enrichment and saving run only after cargar_datos and validar_datos
\* have both succeeded; when a candle has high < low, an error containing
\* "High < Low" is recorded, procesar returns None, enriquecer_datos is never
\* invoked and the classification stage never runs for that file.
C4_ValidacionAntesDeEnriquecer ==
    /\ \A k \in Llamadas("enriquecer_datos") \cup Llamadas("guardar_procesado")
                \cup Llamadas("DayClassifier") :
          /\ k > 2
          /\ traza[1] = Llamada("cargar_datos", TRUE)
          /\ traza[2] = Llamada("validar_datos", TRUE)
    /\ (Llamado("validar_datos") /\ HayHighLtLow(archivo.filas)) =>
          /\ "velas con High < Low" \in Textos(ing.errores)
          /\ ~Llamado("enriquecer_datos")
          /\ ~Llamado("DayClassifier")
          /\ pc \in {"retorno", "fin"}
          /\ ret = None

C4_Witness ==
    /\ pc = "fin"
    /\ llamador = "procesar_archivo"
    /\ HayHighLtLow(archivo.filas)
    /\ "velas con High < Low" \in Textos(ing.errores)
    /\ ret = None

\* the verdict of validar_datos, once it has been called on the loaded rows
Validado == Llamado("validar_datos")
Veredicto == Resultado("validar_datos")

Presente(x) == x # NaN
EnLimites(x) == Presente(x) /\ precio_min <= x /\ x <= precio_max

\* C5 as stated: the verdict is valid exactly when every candle has its four
\* prices inside the bounds, its volume not below the minimum, high >= low and
\* open and close inside [low, high]; after a valid verdict every candle has
\* low <= min(open, close) and max(open, close) <= high.
VelaCorrecta(r) ==
    /\ EnLimites(r.open) /\ EnLimites(r.high) /\ EnLimites(r.low) /\ EnLimites(r.close)
    /\ Presente(r.volume) /\ r.volume >= volumen_min
    /\ r.high >= r.low
    /\ r.low <= r.open /\ r.open <= r.high
    /\ r.low <= r.close /\ r.close <= r.high

C5_Original ==
    Validado =>
        /\ Veredicto <=> \A i \in Indices(archivo.filas) : VelaCorrecta(archivo.filas[i])
        /\ Veredicto =>
             \A i \in Indices(Valor(ing.df)) :
                LET r == Valor(ing.df)[i]
                IN  /\ Presente(r.open) /\ Presente(r.high) /\ Presente(r.low) /\ Presente(r.close)
                    /\ r.low <= Min(r.open, r.close)
                    /\ Max(r.open, r.close) <= r.high

\* C5 amended: a missing cell violates nothing.  The verdict is valid exactly
\* when no candle has a present price outside the bounds, a present volume
\* below the minimum, present high < low, or a present open or close outside
\* the present low / high; after a valid verdict every candle whose four
\* prices are present has low <= min(open, close) and max(open, close) <= high.
\* Nulls, duplicates and gaps only add warnings.
VelaSinViolacion(r) ==
    /\ \A col \in {"open", "high", "low", "close"} :
          Presente(r[col]) => (precio_min <= r[col] /\ r[col] <= precio_max)
    /\ Presente(r.volume) => r.volume >= volumen_min
    /\ (Presente(r.high) /\ Presente(r.low)) => r.high >= r.low
    /\ \A col \in {"open", "close"} :
          /\ (Presente(r[col]) /\ Presente(r.low)) => r.low <= r[col]
          /\ (Presente(r[col]) /\ Presente(r.high)) => r[col] <= r.high

TextosAviso ==
    {"Valores nulos encontrados", "timestamps duplicados encontrados",
     "gaps temporales detectados (>5 min)"}

C5_VeredictoSinNulos ==
    Validado =>
        /\ Veredicto <=> \A i \in Indices(archivo.filas) : VelaSinViolacion(archivo.filas[i])
        /\ Veredicto =>
             \A i \in Indices(Valor(ing.df)) :
                LET r == Valor(ing.df)[i]
                IN  (Presente(r.open) /\ Presente(r.high) /\ Presente(r.low) /\ Presente(r.close))
                    => (r.low <= Min(r.open, r.close) /\ Max(r.open, r.close) <= r.high)
        /\ Textos(ing.errores) \cap TextosAviso = {}

C5_Witness ==
    /\ Validado /\ Veredicto
    /\ \E i \in Indices(archivo.filas) : archivo.filas[i].open = NaN
    /\ \E i \in Indices(archivo.filas) : archivo.filas[i].high = precio_max
    /\ "Valores nulos encontrados" \in Textos(ing.warnings)
    /\ "timestamps duplicados encontrados" \in Textos(ing.warnings)

\* C6: one call of validar_datos records a message for every check type the
\* loaded rows violate, not only for the first one.
MarcasDeTiempo(filas) == {filas[i].datetime : i \in Indices(filas)}

HayGap(filas) ==
    \E a, b \in MarcasDeTiempo(filas) :
        /\ b - a > UmbralGapMinutos
        /\ ~\E c \in MarcasDeTiempo(filas) : a < c /\ c < b

HayDuplicado(filas) ==
    \E i, j \in Indices(filas) : i # j /\ filas[i].datetime = filas[j].datetime

HayCelda(filas, cols, P(_)) ==
    \E i \in Indices(filas) : \E col \in cols : Presente(filas[i][col]) /\ P(filas[i][col])

BajoMinimo(x) == x < precio_min
SobreMaximo(x) == x > precio_max
BajoVolumenMinimo(x) == x < volumen_min

FueraDeHL(filas, col) ==
    \E i \in Indices(filas) :
        \/ Presente(filas[i][col]) /\ Presente(filas[i].high) /\ filas[i][col] > filas[i].high
        \/ Presente(filas[i][col]) /\ Presente(filas[i].low) /\ filas[i][col] < filas[i].low

Violado(tipo, filas) ==
    CASE tipo = "precio minimo fuera de rango" ->
            HayCelda(filas, {"open", "high", "low", "close"}, BajoMinimo)
      [] tipo = "precio maximo fuera de rango" ->
            HayCelda(filas, {"open", "high", "low", "close"}, SobreMaximo)
      [] tipo = "registros con volumen negativo" -> HayCelda(filas, {"volume"}, BajoVolumenMinimo)
      [] tipo = "velas con High < Low" -> HayHighLtLow(filas)
      [] tipo = "velas con Open fuera de rango H/L" -> FueraDeHL(filas, "open")
      [] tipo = "velas con Close fuera de rango H/L" -> FueraDeHL(filas, "close")
      [] tipo = "timestamps duplicados encontrados" -> HayDuplicado(filas)
      [] tipo = "gaps temporales detectados (>5 min)" -> HayGap(filas)

TiposDeChequeo ==
    {"precio minimo fuera de rango", "precio maximo fuera de rango",
     "registros con volumen negativo", "velas con High < Low",
     "velas con Open fuera de rango H/L", "velas con Close fuera de rango H/L",
     "timestamps duplicados encontrados", "gaps temporales detectados (>5 min)"}

TiposViolados(filas) == {tipo \in TiposDeChequeo : Violado(tipo, filas)}

C6_ChequeosAcumulativos ==
    Validado =>
        TiposViolados(archivo.filas) \subseteq Textos(ing.errores) \cup Textos(ing.warnings)

C6_Witness ==
    /\ Validado
    /\ Cardinality(TiposViolados(archivo.filas)) >= 4
    /\ {"velas con High < Low", "registros con volumen negativo",
        "timestamps duplicados encontrados"} \subseteq TiposViolados(archivo.filas)
    /\ TiposViolados(archivo.filas) \subseteq Textos(ing.errores) \cup Textos(ing.warnings)

\* C7 as stated: when procesar has returned, either the dataset was returned
\* and no error is recorded, or None was returned and an error is recorded.
C7_Original ==
    Retornado =>
        \/ ret # None /\ ing.errores = <<>>
        \/ ret = None /\ ing.errores # <<>>

\* C8: when the timezone conversion raises, the timestamps stay the loaded
\* ones, a warning is printed, the calendar fields, range and session are
\* derived from the unmodified timestamps, and procesar goes on to return
\* the dataset.
ConversionFallo == Llamado("enriquecer_datos") /\ ~Resultado("enriquecer_datos")

C8_FalloDeZonaConservaTimestamps ==
    ConversionFallo =>
        /\ \E o \in sort_values(archivo.filas) :
              /\ Len(Valor(ing.df)) = Len(o)
              /\ \A i \in Indices(o) :
                    LET r == Valor(ing.df)[i]
                    IN  /\ r.datetime = o[i].datetime
                        /\ r.fecha = o[i].datetime \div MinutosDia
                        /\ r.hora = o[i].datetime % MinutosDia
                        /\ r.dia_semana = day_name(o[i].datetime \div MinutosDia)
                        /\ r.rango = Resta(o[i].high, o[i].low)
                        /\ r.sesion = identificar_sesion(o[i].datetime)
        /\ "Advertencia al convertir zona horaria" \in {consola[k] : k \in 1..Len(consola)}
        /\ pc \in {"guardar", "resumen", "retorno", "clasificacion", "fin"}
        /\ Retornado => ret = ing.df /\ ret # None

C8_Witness ==
    /\ ConversionFallo
    /\ pc = "clasificacion"
    /\ ret # None
    /\ \E i \in Indices(Valor(ret)) :
          /\ Valor(ret)[i].datetime = T0
          /\ Valor(ret)[i].sesion = "EUROPA"

(***************************************************************************)
(* Properties of the day classification (SpecClasif)                       *)
(***************************************************************************)
Clasificado == ultima.metodo = "clasificar_dias"

\* the snapshot of metric m over all the days of the dataset
SnapshotDe(m) ==
    snapshot(Ordenados(Valor(calcular_estadisticas_diarias(clf).stats_diarias), m))

\* C9 as stated: whenever clasificar_dias(metrica=m) returns, whatever was
\* called before, the thresholds and the mean/std applied to each day are
\* those of metric m over all days.
C9_Original ==
    Clasificado =>
        LET m == ultima.metrica
            tabla == Valor(clf.clasificaciones)
        IN  /\ Valor(clf.percentiles) = SnapshotDe(m)
            /\ \A f \in DOMAIN tabla :
                  /\ tabla[f].clasificacion = clasificar(tabla[f][m], SnapshotDe(m))
                  /\ tabla[f].es_outlier = es_outlier(tabla[f][m], SnapshotDe(m))

\* C10: a day is FUERTE if its metric >= p67, INTERMEDIO if p33 <= metric <
\* p67 and LATERAL otherwise, p33 and p67 being the thresholds the call
\* applied; every day gets exactly one tier.
C10_ReglaDeTramos ==
    Clasificado =>
        LET m == ultima.metrica
            tabla == Valor(clf.clasificaciones)
            p == Valor(clf.percentiles)
        IN  /\ DOMAIN tabla = Fechas(clf.df)
            /\ \A f \in DOMAIN tabla :
                  LET v == tabla[f][m] * Escala
                      c == tabla[f].clasificacion
                  IN  /\ c \in {"FUERTE", "INTERMEDIO", "LATERAL"}
                      /\ c = "FUERTE" <=> v >= p.p67
                      /\ c = "INTERMEDIO" <=> (p.p33 <= v /\ v < p.p67)
                      /\ c = "LATERAL" <=> ~(v >= p.p67) /\ ~(p.p33 <= v /\ v < p.p67)

C10_Witness ==
    /\ Clasificado
    /\ LET m == ultima.metrica
           tabla == Valor(clf.clasificaciones)
           p == Valor(clf.percentiles)
       IN  /\ p.p33 < p.p67
           /\ \E f \in DOMAIN tabla :
                 tabla[f][m] * Escala = p.p67 /\ tabla[f].clasificacion = "FUERTE"
           /\ \E f \in DOMAIN tabla :
                 tabla[f][m] * Escala = p.p33 /\ tabla[f].clasificacion = "INTERMEDIO"
           /\ \E f \in DOMAIN tabla : tabla[f].clasificacion = "LATERAL"

\* the tier and the outlier flag of every day of a classified table
Etiquetas(c) ==
    [f \in DOMAIN Valor(c.clasificaciones) |->
        [ clasificacion |-> Valor(c.clasificaciones)[f].clasificacion,
          es_outlier    |-> Valor(c.clasificaciones)[f].es_outlier ]]

\* C11: clasificar_dias called again on the same DayClassifier, right after a
\* clasificar_dias call with the same metric, yields for every day the same
\* classification and the same outlier flag as the call before it.
C11_Idempotente ==
    [][ ( /\ ultima.metodo = "clasificar_dias"
          /\ ultima'.metodo = "clasificar_dias"
          /\ ultima'.metrica = ultima.metrica )
        => Etiquetas(clf') = Etiquetas(clf) ]_vars

\* the second of two equal calls has returned, on a classifier whose snapshot
\* was taken of another metric than the one classified
C11_Witness ==
    /\ Clasificado
    /\ ultima.repetida
    /\ Valor(clf.percentiles) # SnapshotDe(ultima.metrica)
    /\ \E f, g \in DOMAIN Valor(clf.clasificaciones) :
          Etiquetas(clf)[f].clasificacion # Etiquetas(clf)[g].clasificacion

\* C12 as stated: after clasificar_dias(metrica=m), a day is flagged as
\* outlier exactly when its metric is strictly greater than mean + 2*std of
\* metric m over all days (so never at the boundary nor on the low tail).
C12_Original ==
    Clasificado =>
        LET m == ultima.metrica
            tabla == Valor(clf.clasificaciones)
            n == SnapshotDe(m).mean.n
            suma == SnapshotDe(m).mean.suma
            var == SnapshotDe(m).std2
        IN  \A f \in DOMAIN tabla :
               tabla[f].es_outlier <=>
                  /\ var.den # 0
                  /\ tabla[f][m] * n > suma
                  /\ (tabla[f][m] * n - suma) * (tabla[f][m] * n - suma) * var.den
                        > 4 * n * n * var.num

(***************************************************************************)
(* Properties of the outlier threshold (SpecUmbral)                        *)
(***************************************************************************)
\* the snapshot applied has mean 100 and std 20
Media100Std20 ==
    /\ Clasificado
    /\ LET p == Valor(clf.percentiles)
       IN  /\ p.mean.suma = 100 * p.mean.n
           /\ p.std2.den # 0
           /\ p.std2.num = 20 * 20 * p.std2.den

\* C13 as stated: with mean = 100 and std = 20, a day with metric 145 is not
\* flagged as an outlier and a day with metric 141 is flagged.
C13_Original ==
    Media100Std20 =>
        \A f \in DOMAIN Valor(clf.clasificaciones) :
           LET dia == Valor(clf.clasificaciones)[f]
           IN  /\ dia.rango_diario = 145 => ~dia.es_outlier
               /\ dia.rango_diario = 141 => dia.es_outlier

\* C13, amended: with mean = 100 and std = 20 the boundary is 140 and the
\* comparison strict: days with metric 141 and 145 are both flagged, a day
\* with metric 140 is not.
C13_Umbral140 ==
    Media100Std20 =>
        \A f \in DOMAIN Valor(clf.clasificaciones) :
           LET dia == Valor(clf.clasificaciones)[f]
           IN  dia.es_outlier <=> dia.rango_diario > 140

C13_Witness ==
    /\ Media100Std20
    /\ \E f, g, h \in DOMAIN Valor(clf.clasificaciones) :
          LET tabla == Valor(clf.clasificaciones)
          IN  /\ tabla[f].rango_diario = 140 /\ ~tabla[f].es_outlier
              /\ tabla[g].rango_diario = 141 /\ tabla[g].es_outlier
              /\ tabla[h].rango_diario = 145 /\ tabla[h].es_outlier

(***************************************************************************)
(* Properties of the streak detection (SpecRachas)                         *)
(***************************************************************************)
\* the tier of the k-th day of the classified table in date order
TramoDelDia(k) ==
    LET tabla == Valor(clf.clasificaciones)
        f == CHOOSE x \in DOMAIN tabla : Cardinality({y \in DOMAIN tabla : y <= x}) = k
    IN  [fecha |-> f, tramo |-> tabla[f].clasificacion]

\* the days i..j are a maximal run of one tier
RachaMaximal(i, j) ==
    LET n == Cardinality(DOMAIN Valor(clf.clasificaciones))
    IN  /\ \A k \in i..j : TramoDelDia(k).tramo = TramoDelDia(i).tramo
        /\ i = 1 \/ TramoDelDia(i - 1).tramo # TramoDelDia(i).tramo
        /\ j = n \/ TramoDelDia(j + 1).tramo # TramoDelDia(j).tramo

RachasEsperadas ==
    LET n == Cardinality(DOMAIN Valor(clf.clasificaciones))
    IN  { [ tipo |-> TramoDelDia(i).tramo, fecha_inicio |-> TramoDelDia(i).fecha,
            fecha_fin |-> TramoDelDia(j).fecha, duracion |-> j - i + 1 ] :
          <<i, j>> \in {ij \in (1..n) \X (1..n) :
                          ij[1] + 2 <= ij[2] /\ RachaMaximal(ij[1], ij[2])} }

\* C14: detectar_rachas reports exactly the maximal runs of days, consecutive
\* in date order, that share a classification and are at least 3 days long,
\* each once with its type, first date, last date and length; the reported
\* streaks do not overlap, and no shorter run is reported.
C14_RachasMaximales ==
    rachas # None =>
        LET r == Valor(rachas)
        IN  /\ {r[k] : k \in 1..Len(r)} = RachasEsperadas
            /\ Len(r) = Cardinality(RachasEsperadas)
            /\ \A k \in 1..Len(r) : r[k].duracion >= 3
            /\ \A k, l \in 1..Len(r) :
                  k < l => r[k].fecha_fin < r[l].fecha_inicio

\* two streaks are reported, one of exactly 3 days, and a run of fewer days
\* lies in the dataset unreported
C14_Witness ==
    /\ rachas # None
    /\ Len(Valor(rachas)) = 2
    /\ \E k \in 1..2 : Valor(rachas)[k].duracion = 3
    /\ Valor(rachas)[1].duracion + Valor(rachas)[2].duracion
          < Cardinality(DOMAIN Valor(clf.clasificaciones))

\* the example of the claim: FUERTE, FUERTE, FUERTE, LATERAL, LATERAL
C14_Ejemplo ==
    /\ rachas # None
    /\ Cardinality(DOMAIN Valor(clf.clasificaciones)) = 5
    /\ \A k \in 1..5 : TramoDelDia(k).tramo = IF k <= 3 THEN "FUERTE" ELSE "LATERAL"
    /\ Valor(rachas) = << [tipo |-> "FUERTE", fecha_inicio |-> TramoDelDia(1).fecha,
                           fecha_fin |-> TramoDelDia(3).fecha, duracion |-> 3] >>

(***************************************************************************)
(* Small datasets (SpecClasif)                                             *)
(***************************************************************************)
MIN_DIAS_ANALISIS == 20

\* What clasificar_dias returns is the table; what it prints is the number of
\* days, the percentiles and the name of the metric.  A low-confidence mark
\* can only be a column of the table besides the daily statistics, the tier
\* and the outlier flag.
ColumnasDeClasificacion ==
    { "high", "low", "open", "close", "volume", "rango", "num_velas", "rango_diario",
      "cambio_diario", "direccion", "dia_semana", "clasificacion", "es_outlier" }

BajaConfianza ==
    \E f \in DOMAIN Valor(clf.clasificaciones) :
       DOMAIN Valor(clf.clasificaciones)[f] \ ColumnasDeClasificacion # {}

\* C15 as stated: clasificar_dias on fewer days than MIN_DIAS_ANALISIS does
\* not fail, classifies every day, and flags its output as low-confidence.
C15_Original ==
    (Clasificado /\ Cardinality(Fechas(clf.df)) < MIN_DIAS_ANALISIS) =>
        /\ clf.clasificaciones # None
        /\ DOMAIN Valor(clf.clasificaciones) = Fechas(clf.df)
        /\ BajaConfianza

(***************************************************************************)
(* Properties of the aggregation (SpecAgg)                                 *)
(***************************************************************************)
\* the rows of I that carry the earliest / the latest timestamp of I
MasTempranas(filas, I) == {i \in I : \A j \in I : filas[i].datetime <= filas[j].datetime}
MasTardias(filas, I) == {i \in I : \A j \in I : filas[i].datetime >= filas[j].datetime}

\* the aggregate of the rows I of the dataset, as the claim defines it
AgregadoPorTiempo(filas, I, agg) ==
    /\ \E i \in MasTempranas(filas, I) : agg.open = filas[i].open
    /\ \E i \in MasTardias(filas, I) : agg.close = filas[i].close
    /\ agg.high = agg_max(filas, I, "high")
    /\ agg.low = agg_min(filas, I, "low")
    /\ agg.volume = SumaCol(filas, I, "volume")

\* C16 as stated: for every day and every (day, session) group the
\* aggregated open is the open of the candle with the earliest timestamp of
\* the group and the close that of the candle with the latest one, whatever
\* the row order of the dataset; high is the maximum high, low the minimum
\* low and volume the sum of the volumes.
C16_Original ==
    /\ clf.stats_diarias # None =>
          \A f \in DOMAIN Valor(clf.stats_diarias) :
             AgregadoPorTiempo(clf.df, {i \in Indices(clf.df) : clf.df[i].fecha = f},
                               Valor(clf.stats_diarias)[f])
    /\ ana.stats_sesiones # None =>
          \A k \in DOMAIN Valor(ana.stats_sesiones) :
             AgregadoPorTiempo(ana.df,
                               {i \in Indices(ana.df) : /\ ana.df[i].fecha = k[1]
                                                        /\ ana.df[i].sesion = k[2]},
                               Valor(ana.stats_sesiones)[k])

\* the sum of column col over the session rows K of the table
SumaSesiones(tabla, K, col) ==
    LET RECURSIVE suma(_)
        suma(J) == IF J = {} THEN 0
                   ELSE LET k == CHOOSE x \in J : TRUE
                        IN  tabla[k][col] + suma(J \ {k})
    IN  suma(K)

Agregado == clf.stats_diarias # None /\ ana.stats_sesiones # None

\* C17: for every date the (date, session) groups partition the date's
\* candles: each candle lies in exactly one group of the session table, the
\* session candle counts and volumes sum to the daily count and volume, the
\* daily high is the maximum of the session highs and the daily low the
\* minimum of the session lows (highs and lows that are present).
C17_ParticionPorSesion ==
    Agregado =>
        LET dia == Valor(clf.stats_diarias)
            ses == Valor(ana.stats_sesiones)
            DelDia(f) == {k \in DOMAIN ses : k[1] = f}
            Presentes(f, col) == {ses[k][col] : k \in DelDia(f)} \ {NaN}
        IN  /\ \A i \in Indices(clf.df) :
                  Cardinality({k \in DOMAIN ses : /\ k[1] = clf.df[i].fecha
                                                  /\ k[2] = clf.df[i].sesion}) = 1
            /\ {k[1] : k \in DOMAIN ses} = DOMAIN dia
            /\ \A f \in DOMAIN dia :
                  /\ SumaSesiones(ses, DelDia(f), "num_velas") = dia[f].num_velas
                  /\ SumaSesiones(ses, DelDia(f), "volume") = dia[f].volume
                  /\ dia[f].high = IF Presentes(f, "high") = {} THEN NaN
                                   ELSE SetMax(Presentes(f, "high"))
                  /\ dia[f].low = IF Presentes(f, "low") = {} THEN NaN
                                  ELSE SetMin(Presentes(f, "low"))

\* two dates with candles of the same session, and a date with two sessions
\* whose highs differ
C17_Witness ==
    /\ Agregado
    /\ LET ses == Valor(ana.stats_sesiones)
       IN  /\ \E k, l \in DOMAIN ses : k[1] # l[1] /\ k[2] = l[2]
           /\ \E k, l \in DOMAIN ses :
                 /\ k[1] = l[1] /\ k[2] # l[2]
                 /\ ses[k].high # NaN /\ ses[l].high # NaN /\ ses[k].high < ses[l].high
                 /\ Valor(clf.stats_diarias)[k[1]].high = ses[l].high

(***************************************************************************)
(* Properties of the rule mining (SpecPred)                                *)
(***************************************************************************)
\* the range of session s on date f in the session table, NaN if it has none
RangoSesion(f, s) ==
    IF <<f, s>> \in DOMAIN Valor(pred.stats_sesiones)
    THEN Valor(pred.stats_sesiones)[<<f, s>>].rango_sesion
    ELSE NaN

DiasConSesiones == {k[1] : k \in DOMAIN Valor(pred.stats_sesiones)}

\* the ranges of session s over the dates F that have one, in ascending order
RangosOrdenados(F, s) ==
    Ordenados([f \in {x \in F : RangoSesion(x, s) # NaN} |-> [v |-> RangoSesion(f, s)]], "v")

\* the days whose range of session s reaches the 75th percentile of s over
\* the dataset: with v the n ascending ranges, 4 * p75 lies 3 * (n - 1)
\* quarter steps above v[1]
DiasSobreP75(s) ==
    LET v == RangosOrdenados(DiasConSesiones, s)
        pasos == 3 * (Len(v) - 1)
        base == pasos \div 4 + 1
        p75_4 == IF pasos % 4 = 0 THEN 4 * v[base]
                 ELSE (4 - (pasos % 4)) * v[base] + (pasos % 4) * v[base + 1]
    IN  IF Len(v) = 0 THEN {}
        ELSE {f \in DiasConSesiones : RangoSesion(f, s) # NaN /\ 4 * RangoSesion(f, s) >= p75_4}

\* the days that follow two days of tier t, in date order
DiasTrasDos(t) ==
    LET tabla == Valor(pred.clasificaciones)
        Antes(f) == {g \in DOMAIN tabla : g < f}
        previo(f) == SetMax(Antes(f))
    IN  {f \in DOMAIN tabla :
           /\ Cardinality(Antes(f)) >= 2
           /\ tabla[previo(f)].clasificacion = t
           /\ tabla[previo(previo(f))].clasificacion = t}

\* the conditioning subset of a pattern, by the text of its condition
Condicionantes(condicion) ==
    CASE condicion = "Si ASIA mueve >P75" -> DiasSobreP75("ASIA")
      [] condicion = "Si EUROPA mueve >P75" -> DiasSobreP75("EUROPA")
      [] condicion = "Despues de 2 dias laterales consecutivos" -> DiasTrasDos("LATERAL")
      [] condicion = "Despues de 2 dias fuertes consecutivos" -> DiasTrasDos("FUERTE")

Reglas == Valor(pred.reglas_probabilisticas)

DiasSobreMediana(F, s) ==
    LET v == RangosOrdenados(DiasConSesiones, s)
        n == Len(v)
        mediana_2 == IF n % 2 = 1 THEN 2 * v[(n + 1) \div 2]
                     ELSE v[n \div 2] + v[n \div 2 + 1]
    IN  IF n = 0 THEN {}
        ELSE {f \in F : RangoSesion(f, s) # NaN /\ 2 * RangoSesion(f, s) >= mediana_2}

SegundaSesion(clave) == IF clave = "asia_fuerte_europa" THEN "EUROPA" ELSE "NY"

\* C19 (as stated): the probability of a session-handoff pattern is the
\* share, in tenths of a percent, of its conditioning days whose
\* second-session range reaches the median of the second session over the
\* dataset.  analizar_patron_sesion_previa takes the median over the
\* conditioning days instead, so this does not hold.
C19_Original ==
    pred.patrones.sesion_previa # None =>
        \A clave \in DOMAIN Valor(pred.patrones.sesion_previa) :
            LET patron == Valor(pred.patrones.sesion_previa)[clave]
                dias == Condicionantes(patron.condicion)
            IN  patron.probabilidad =
                    round1(Cardinality(DiasSobreMediana(dias, SegundaSesion(clave))),
                           Cardinality(dias))


\* the minimum and the second threshold of each type of rule, in tenths of a
\* percent
MinimoDelTipo(tipo) ==
    CASE tipo = "DIA_SEMANA" -> 450 [] tipo = "RACHA" -> 500 [] tipo = "SESION_PREVIA" -> 600

SegundoDelTipo(tipo) ==
    CASE tipo = "DIA_SEMANA" -> 500 [] tipo = "RACHA" -> 650 [] tipo = "SESION_PREVIA" -> 700

\* the probabilities of the patterns held, by type of rule
ProbabilidadesDelTipo(tipo) ==
    LET de(o) == IF o = None THEN <<>> ELSE Valor(o)
        dias == de(pred.patrones.dia_semana)
        sesiones == de(pred.patrones.sesion_previa)
        seguidos == de(pred.patrones.rachas)
    IN  CASE tipo = "DIA_SEMANA" ->
               {dias[d].prob_fuerte : d \in DOMAIN dias}
                   \cup {dias[d].prob_lateral : d \in DOMAIN dias}
          [] tipo = "SESION_PREVIA" -> {sesiones[k].probabilidad : k \in DOMAIN sesiones}
          [] tipo = "RACHA" ->
               {seguidos[k].probabilidad_fuerte :
                    k \in {x \in DOMAIN seguidos : "probabilidad_fuerte" \in DOMAIN seguidos[x]}}
                   \cup {seguidos[k].probabilidad_lateral :
                    k \in {x \in DOMAIN seguidos : "probabilidad_lateral" \in DOMAIN seguidos[x]}}

ReglasConLosTresAnalisis ==
    generar_reglas_probabilisticas(
        analizar_rachas(analizar_patron_sesion_previa(analizar_patrones_dia_semana(
            TradingPredictorInit(pred.df, pred.clasificaciones, pred.stats_sesiones)))))
      .reglas_probabilisticas

\* C21 (as stated): whatever analyses were called before it,
\* generar_reglas_probabilisticas computes the pattern families still missing,
\* so the rules it stores are those obtained with the three analyses run
\* first.  The guard is "if not self.patrones", which is false as soon as one
\* analysis has run, so this does not hold.
C21_Original ==
    [][ GenerarReglasProbabilisticas =>
            pred'.reglas_probabilisticas = ReglasConLosTresAnalisis ]_vars

\* C22 (as stated): over any sequence of public method calls on one
\* DayClassifier, the percentile snapshot, once computed, is never
\* overwritten with different values.  calcular_percentiles assigns
\* self.percentiles on every call, for whatever metric it is given, so this
\* does not hold.
C22_Original ==
    [][ clf.percentiles # None => clf'.percentiles = clf.percentiles ]_vars

(***************************************************************************)
(* The dominant session of each day (SpecAgg)                              *)
(***************************************************************************)
\* the range of session s on date f in the session table, NaN without one
RangoEnTabla(f, s) ==
    LET ses == Valor(ana.stats_sesiones)
    IN  IF <<f, s>> \in DOMAIN ses THEN ses[<<f, s>>].rango_sesion ELSE NaN

FechasDeSesiones == {k[1] : k \in DOMAIN Valor(ana.stats_sesiones)}

\* position of a session in the order ASIA, EUROPA, NY
OrdenDeSesion(s) == CASE s = "ASIA" -> 1 [] s = "EUROPA" -> 2 [] s = "NY" -> 3

\* row i of the returned table names the session of largest range of its
\* date, the first in order among those that tie
FilaDominante(fila) ==
    /\ fila.rango # NaN
    /\ fila.rango = RangoEnTabla(fila.fecha, fila.sesion_dominante)
    /\ \A s \in Sesiones :
          /\ RangoEnTabla(fila.fecha, s) <= fila.rango
          /\ RangoEnTabla(fila.fecha, s) = fila.rango =>
                 OrdenDeSesion(fila.sesion_dominante) <= OrdenDeSesion(s)

Dominantes == Valor(dominantes).df_dominantes

\* C24 (as stated): identificar_sesion_dominante reports, for every date,
\* exactly one dominant session, that of largest range, the first in the
\* order ASIA, EUROPA, NY among those that tie.  On a date none of whose
\* sessions has a range the method reports nothing or raises, so this does
\* not hold.
C24_Original ==
    dominantes # None =>
        /\ Valor(dominantes).excepcion = ""
        /\ \A f \in FechasDeSesiones :
              Cardinality({i \in 1..Len(Dominantes) : Dominantes[i].fecha = f}) = 1
        /\ \A i \in 1..Len(Dominantes) : FilaDominante(Dominantes[i])

\* what does hold: every row the method returns is the first largest session
\* of its date, and a date has one row when it has a range and none otherwise
C24_EnDiasConRango ==
    (dominantes # None /\ Valor(dominantes).excepcion = "") =>
        /\ \A f \in FechasDeSesiones :
              Cardinality({i \in 1..Len(Dominantes) : Dominantes[i].fecha = f})
                = IF \E s \in Sesiones : RangoEnTabla(f, s) # NaN THEN 1 ELSE 0
        /\ \A i \in 1..Len(Dominantes) : FilaDominante(Dominantes[i])

\* a tie between ASIA and EUROPA reported as ASIA
C24_Empate ==
    /\ dominantes # None
    /\ Valor(dominantes).excepcion = ""
    /\ \E i \in 1..Len(Dominantes) :
          LET fila == Dominantes[i]
          IN  /\ fila.sesion_dominante = "ASIA"
              /\ RangoEnTabla(fila.fecha, "EUROPA") = fila.rango

(***************************************************************************)
(* Daylight-saving time (SpecDst)                                          *)
(***************************************************************************)
\* the n-th Sunday of a month
Domingo(year, month, n) ==
    CHOOSE d \in 1..DiasDelMes(year, month) :
        /\ weekday(year, month, d) = 6
        /\ Cardinality({e \in 1..d : weekday(year, month, e) = 6}) = n

\* a datetime at or after hour 02:00 of a day of a month
DesdeLasDos(f, month, day) ==
    \/ f.month > month
    \/ f.month = month /\ f.day > day
    \/ f.month = month /\ f.day = day /\ f.hour >= 2

\* C25 (as stated): a timestamp is in DST exactly from 02:00 on the second
\* Sunday of March up to 02:00 on the first Sunday of November of its own
\* year.  _es_dst_usa looks at the day only, so in the two hours before
\* either switch its answer is that of the hours after it.
C25_Original ==
    dst # None =>
        Valor(dst) = ( /\ DesdeLasDos(fecha_dst, 3, Domingo(fecha_dst.year, 3, 2))
                       /\ ~DesdeLasDos(fecha_dst, 11, Domingo(fecha_dst.year, 11, 1)) )

\* what does hold: by calendar day, DST runs from the second Sunday of March
\* to the day before the first Sunday of November, in every year
C25_PorDia ==
    dst # None =>
        Valor(dst) = ( /\ \/ fecha_dst.month > 3
                          \/ fecha_dst.month = 3 /\ fecha_dst.day >= Domingo(fecha_dst.year, 3, 2)
                       /\ \/ fecha_dst.month < 11
                          \/ fecha_dst.month = 11 /\ fecha_dst.day < Domingo(fecha_dst.year, 11, 1) )

(***************************************************************************)
(* Properties relating the outlier flag and the tiers (SpecUmbral)         *)
(***************************************************************************)
\* every day of the classified table has a daily range
SinHuecos ==
    \A f \in DOMAIN Valor(clf.clasificaciones) :
       Valor(clf.clasificaciones)[f].rango_diario # NaN

\* C26 as stated: every outlier day is FUERTE, the thresholds and the
\* mean/std coming from the same metric over the same days.
C26_Original ==
    Clasificado =>
        \A f \in DOMAIN Valor(clf.clasificaciones) :
           LET dia == Valor(clf.clasificaciones)[f]
           IN  dia.es_outlier => dia.clasificacion = "FUERTE"

\* on the datasets where every day has a daily range, every outlier day is
\* FUERTE
C26_SinHuecos ==
    (Clasificado /\ SinHuecos) => C26_Original

\* the days of the classified table whose metric is the largest one present
DiasDeMayorMetrica ==
    LET tabla == Valor(clf.clasificaciones)
    IN  {f \in DOMAIN tabla :
            /\ tabla[f].rango_diario # NaN
            /\ \A g \in DOMAIN tabla : tabla[g].rango_diario <= tabla[f].rango_diario}

\* C27 as stated: classified on the metric its percentiles were computed
\* from, the day with the largest metric is FUERTE, so at least one day of
\* every non-empty dataset is FUERTE; when all days have the same metric all
\* of them are FUERTE and none is LATERAL.
C27_Original ==
    Clasificado =>
        LET tabla == Valor(clf.clasificaciones)
        IN  /\ \A f \in DiasDeMayorMetrica : tabla[f].clasificacion = "FUERTE"
            /\ \E f \in DOMAIN tabla : tabla[f].clasificacion = "FUERTE"
            /\ (\A f, g \in DOMAIN tabla : tabla[f].rango_diario = tabla[g].rango_diario)
                  => \A f \in DOMAIN tabla : tabla[f].clasificacion = "FUERTE"

\* on the datasets where every day has a daily range, the day with the
\* largest metric is FUERTE
C27_SinHuecos ==
    (Clasificado /\ SinHuecos) => C27_Original

(***************************************************************************)
(* Frame of the three analysis objects (SpecMarco)                         *)
(***************************************************************************)
\* C23: no public operation of DayClassifier, SessionAnalytics or
\* TradingPredictor modifies the per-minute dataset, the classification
\* table or the session-statistics table it was handed: every step leaves
\* each of them with the same rows, columns and values.
C23_EntradasIntactas ==
    [][ /\ clf'.df = clf.df
        /\ ana'.df = ana.df
        /\ ana'.clasificaciones = ana.clasificaciones
        /\ pred'.df = pred.df
        /\ pred'.clasificaciones = pred.clasificaciones
        /\ pred'.stats_sesiones = pred.stats_sesiones ]_vars

\* the three objects have run their methods on a dataset of two days and
\* the tables handed to them are those the caller built
C23_Witness ==
    /\ Len(clf.df) = 2
    /\ clf.clasificaciones # None /\ rachas # None
    /\ ana.stats_sesiones # None /\ dominantes # None
    /\ pred.patrones.dia_semana # None /\ pred.patrones.sesion_previa # None
    /\ pred.patrones.rachas # None /\ pred.reglas_probabilisticas # None
    /\ ana.df = clf.df /\ pred.df = clf.df
    /\ ana.clasificaciones = TablasDe(clf.df).clasificaciones
    /\ pred.clasificaciones = TablasDe(clf.df).clasificaciones
    /\ pred.stats_sesiones = TablasDe(clf.df).stats_sesiones

(***************************************************************************)
(* The floor of the session-handoff probability (SpecPred)                 *)
(***************************************************************************)
\* C28: whenever a session-handoff pattern is emitted and every
\* conditioning day has a range for the second session, its probability is
\* at least 50 (500 tenths of a percent): the second session is compared
\* with the median over the conditioning days themselves.
C28_AlMenosLaMitad ==
    pred.patrones.sesion_previa # None =>
        \A clave \in DOMAIN Valor(pred.patrones.sesion_previa) :
            LET patron == Valor(pred.patrones.sesion_previa)[clave]
                dias == Condicionantes(patron.condicion)
            IN  (\A f \in dias : RangoSesion(f, SegundaSesion(clave)) # NaN)
                    => patron.probabilidad >= 500

\* a pattern is held whose conditioning days all have a range for the second
\* session, those ranges differ, and its probability is exactly 50
C28_Witness ==
    /\ pred.patrones.sesion_previa # None
    /\ \E clave \in DOMAIN Valor(pred.patrones.sesion_previa) :
          LET patron == Valor(pred.patrones.sesion_previa)[clave]
              dias == Condicionantes(patron.condicion)
          IN  /\ \A f \in dias : RangoSesion(f, SegundaSesion(clave)) # NaN
              /\ \E f, g \in dias : RangoSesion(f, SegundaSesion(clave))
                                       # RangoSesion(g, SegundaSesion(clave))
              /\ patron.probabilidad = 500

(***************************************************************************)
(* The day-of-week rules (SpecReglas)                                      *)
(***************************************************************************)
\* the positions of the DIA_SEMANA rules of a weekday
ReglasDelDia(dia) ==
    {i \in 1..Len(Reglas) : Reglas[i].tipo = "DIA_SEMANA" /\ Reglas[i].condicion = "Es " \o dia}

\* C29: generar_reglas_probabilisticas emits at most one DIA_SEMANA rule per
\* weekday; when the weekday's FUERTE probability is >= 45 the rule is the
\* FUERTE one, even if its LATERAL probability is also >= 45 and higher; a
\* LATERAL rule is emitted only when the FUERTE probability is below 45.
C29_UnaReglaPorDia ==
    (pred.reglas_probabilisticas # None /\ pred.patrones.dia_semana # None) =>
        \A dia \in DOMAIN Valor(pred.patrones.dia_semana) :
            LET probs == Valor(pred.patrones.dia_semana)[dia]
            IN  /\ Cardinality(ReglasDelDia(dia)) <= 1
                /\ probs.prob_fuerte >= 450 =>
                      \E i \in ReglasDelDia(dia) :
                         /\ Reglas[i].prediccion = "Dia FUERTE probable"
                         /\ Reglas[i].probabilidad = probs.prob_fuerte
                /\ \A i \in ReglasDelDia(dia) :
                      Reglas[i].prediccion = "Dia LATERAL probable" =>
                         /\ probs.prob_fuerte < 450
                         /\ probs.prob_lateral >= 450
                         /\ Reglas[i].probabilidad = probs.prob_lateral

\* Monday, FUERTE at 45 and LATERAL at 50, gets the FUERTE rule alone
C29_Witness ==
    /\ pred.reglas_probabilisticas # None
    /\ pred.patrones.dia_semana # None
    /\ Valor(pred.patrones.dia_semana)["Lunes"].prob_fuerte = 450
    /\ Valor(pred.patrones.dia_semana)["Lunes"].prob_lateral = 500
    /\ Cardinality(ReglasDelDia("Lunes")) = 1
    /\ \A i \in ReglasDelDia("Lunes") : Reglas[i].prediccion = "Dia FUERTE probable"

(***************************************************************************)
(* validar_datos called repeatedly (SpecValidar)                           *)
(***************************************************************************)
\* the number of rows of a frame equal to a candle record
Veces(filas, vela) == Cardinality({i \in DOMAIN filas : filas[i] = vela})

\* C30: validar_datos never changes candle values: after any number of calls
\* on the same loaded data the collection of candle records is the one
\* loaded, only the row order may have changed, to ascending timestamp, and
\* every call has returned the same verdict.
C30_MismasVelas ==
    /\ ing.df # None =>
          /\ archivo.estado = "ok"
          /\ Len(Valor(ing.df)) = Len(archivo.filas)
          /\ \A vela \in Velas : Veces(Valor(ing.df), vela) = Veces(archivo.filas, vela)
          /\ \/ Valor(ing.df) = archivo.filas
             \/ /\ traza # <<>>
                /\ \A i, j \in DOMAIN Valor(ing.df) :
                      i < j => Valor(ing.df)[i].datetime <= Valor(ing.df)[j].datetime
    /\ \A i, j \in DOMAIN traza :
          /\ traza[i].metodo = "validar_datos"
          /\ traza[i].ret = traza[j].ret

\* two candles loaded in descending time order have been validated three
\* times: the frame holds the same two candles in ascending order
C30_Witness ==
    /\ Len(traza) = 3
    /\ ing.df # None
    /\ Len(archivo.filas) = 2
    /\ archivo.filas[1].datetime > archivo.filas[2].datetime
    /\ Valor(ing.df) = <<archivo.filas[2], archivo.filas[1]>>

====
